---- MODULE Spec2Model ----
(***************************************************************************)
(* Model of the excel-convert converter (lib/converter, newest generation) *)
(* and of the pipeline processFile -> convertToXlsx -> textBasedRecovery   *)
(* -> normalizeWorkbook -> XLSX.write.                                     *)
(*                                                                         *)
(* A JavaScript string is a sequence of characters; a character is a       *)
(* one-character TLA+ string ("1", ",", "\n"), and a Hangul syllable is    *)
(* written by its code point ("U+CC38").  A cell value is a record tagged  *)
(* with the JavaScript type it has in the code:                            *)
(*   [t |-> "s", v |-> chars]   string ('' is the code's empty cell)       *)
(*   [t |-> "n", m |-> i, e |-> k]   number, value m / 10^k, k minimal     *)
(*   [t |-> "b", v |-> BOOLEAN]      boolean                               *)
(*   [t |-> "d", y, mo, d]           Date                                  *)
(*   [t |-> "null"]                  null                                  *)
(***************************************************************************)
EXTENDS Integers, Sequences, FiniteSets, TLC

VARIABLES
  cellIn,     \* normalizeCell: the argument `value`
  cellOut,    \* normalizeCell: the value returned for cellIn
  cellOut2,   \* the value the normalizeWorkbook cell mapper returns for cellOut
  cellPc,     \* "in" -> "out" -> "again"
  buffer,     \* processFile: the argument buffer, [bytes, pad]
  originalFilename,   \* processFile: the argument originalFilename
  forceTextRecovery,  \* processFile: the argument forceTextRecovery
  pc,         \* the position of the run of processFile
  calls,      \* the functions called so far, in order
  workbook,   \* convertToXlsx: the variable workbook, then normalizedWorkbook
  recovered,  \* textBasedRecovery: the array data it made its sheet of
  readResult, \* convertToXlsx: what XLSX.read gave, once it has been called
  writeResult,  \* convertToXlsx: what XLSX.write gave, once it has been called
  result,     \* what convertToXlsx returned, then what processFile returns
  fn,         \* a helper function called on its own: its name,
  fnArgs,     \*   its arguments
  fnResult,   \*   and what it returned, once it has
  req,        \* handler: the request
  httpPc,     \* handler: where the handler is
  parsed,     \* handler: what parseFormData resolved to
  conversion, \* handler: what processFile returned
  responses   \* handler: the responses sent so far, in order

cellVars == <<cellIn, cellOut, cellOut2, cellPc>>

pipeVars ==
  <<buffer, originalFilename, forceTextRecovery, pc, calls, workbook, recovered,
    readResult, writeResult, result>>

fnVars == <<fn, fnArgs, fnResult>>

httpVars == <<req, httpPc, parsed, conversion, responses>>

vars == <<cellVars, pipeVars, fnVars, httpVars>>

(***************************************************************************)
(* Bounds                                                                  *)
(***************************************************************************)
MaxCellParts == 3

MaxTextParts == 4

MaxNameParts == 3

MaxLineParts == 4

MaxDelimiterParts == 4

MaxDecodeParts == 3

MaxFallbackParts == 3

(***************************************************************************)
(* Characters and strings                                                  *)
(***************************************************************************)
Digits == <<"0", "1", "2", "3", "4", "5", "6", "7", "8", "9">>

DigitSet == {Digits[i] : i \in 1..10}

DigitVal(c) == (CHOOSE i \in 1..10 : Digits[i] = c) - 1

UpperLetters ==
  <<"A", "B", "C", "D", "E", "F", "G", "H", "I", "J", "K", "L", "M",
    "N", "O", "P", "Q", "R", "S", "T", "U", "V", "W", "X", "Y", "Z">>

LowerLetters ==
  <<"a", "b", "c", "d", "e", "f", "g", "h", "i", "j", "k", "l", "m",
    "n", "o", "p", "q", "r", "s", "t", "u", "v", "w", "x", "y", "z">>

\* String.prototype.toLowerCase, one character
ToLowerChar_identity(c) == c

ToLowerChar(c) ==
  IF \E i \in 1..26 : UpperLetters[i] = c
    THEN LowerLetters[CHOOSE i \in 1..26 : UpperLetters[i] = c]
    ELSE c

ToLowerCase(s) == [i \in 1..Len(s) |-> ToLowerChar(s[i])]

\* the white space String.prototype.trim removes and \s matches
WhiteSpace == {" ", "\t", "\n", "\r", "U+00A0", "U+3000", "U+FEFF"}

RECURSIVE TrimLeft(_)
TrimLeft(s) ==
  IF s # <<>> /\ Head(s) \in WhiteSpace THEN TrimLeft(Tail(s)) ELSE s

RECURSIVE TrimRight(_)
TrimRight(s) ==
  IF s # <<>> /\ s[Len(s)] \in WhiteSpace
    THEN TrimRight(SubSeq(s, 1, Len(s) - 1))
    ELSE s

\* String.prototype.trim
Trim_leftOnly(s) == TrimLeft(s)

Trim(s) == TrimRight(TrimLeft(s))

\* String.prototype.includes, for a one-character needle
Includes(s, c) == \E i \in 1..Len(s) : s[i] = c

\* String.prototype.replace(/,/g, '')
RemoveCommas_firstOnly(s) ==
  IF \E i \in 1..Len(s) : s[i] = ","
    THEN LET k == CHOOSE i \in 1..Len(s) :
                    s[i] = "," /\ \A j \in 1..(i - 1) : s[j] # ","
         IN SubSeq(s, 1, k - 1) \o SubSeq(s, k + 1, Len(s))
    ELSE s

RECURSIVE RemoveCommas(_)
RemoveCommas(s) ==
  IF s = <<>> THEN <<>>
  ELSE IF Head(s) = "," THEN RemoveCommas(Tail(s))
  ELSE <<Head(s)>> \o RemoveCommas(Tail(s))

(***************************************************************************)
(* Cell values                                                             *)
(***************************************************************************)
Str(s) == [t |-> "s", v |-> s]

Bool(b) == [t |-> "b", v |-> b]

DateVal(y, mo, d) == [t |-> "d", y |-> y, mo |-> mo, d |-> d]

NaN == [t |-> "nan"]

RECURSIVE Pow10(_)
Pow10(k) == IF k = 0 THEN 1 ELSE 10 * Pow10(k - 1)

\* a JavaScript number m / 10^e, with e made minimal so that equal values are
\* equal records
RECURSIVE Num(_, _)
Num(m, e) ==
  IF e > 0 /\ m % 10 = 0 THEN Num(m \div 10, e - 1)
  ELSE [t |-> "n", m |-> m, e |-> e]

(***************************************************************************)
(* normalizeCell                                                           *)
(***************************************************************************)
\* the scan of /[\d,]+\.?\d*$/ from position i: st = "int" inside [\d,]+
\* (seen counts its characters), st = "frac" after the '.'
RECURSIVE NumberTail(_, _, _, _)
NumberTail(s, i, st, seen) ==
  IF i > Len(s) THEN seen > 0
  ELSE IF st = "int" /\ (s[i] \in DigitSet \/ s[i] = ",")
    THEN NumberTail(s, i + 1, "int", seen + 1)
  ELSE IF st = "int" /\ s[i] = "." /\ seen > 0
    THEN NumberTail(s, i + 1, "frac", seen)
  ELSE IF st = "frac" /\ s[i] \in DigitSet
    THEN NumberTail(s, i + 1, "frac", seen)
  ELSE FALSE

\* trimmed.match(/^-?[\d,]+\.?\d*$/)
NumberMatch(s) ==
  /\ s # <<>>
  /\ NumberTail(s, IF s[1] = "-" THEN 2 ELSE 1, "int", 0)

\* the digits parseFloat reads from position i on: <<mantissa, number of
\* fraction digits, number of digits read>>; it stops at the first character
\* that cannot continue the number
RECURSIVE FloatDigits(_, _, _, _, _, _)
FloatDigits(s, i, inFrac, m, e, n) ==
  IF i > Len(s) THEN <<m, e, n>>
  ELSE IF s[i] \in DigitSet
    THEN FloatDigits(s, i + 1, inFrac, 10 * m + DigitVal(s[i]),
                     IF inFrac THEN e + 1 ELSE e, n + 1)
  ELSE IF s[i] = "." /\ ~inFrac
    THEN FloatDigits(s, i + 1, TRUE, m, e, n)
  ELSE <<m, e, n>>

\* parseFloat on a string of sign, digits and '.': NaN when it reads no digit.
\* The magnitudes the model reaches are far inside the double range, so the
\* rounding and the overflow to Infinity of a double are not reached.
ParseFloat(s) ==
  LET neg == s # <<>> /\ s[1] = "-"
      r == FloatDigits(s, IF neg THEN 2 ELSE 1, FALSE, 0, 0, 0)
  IN IF r[3] = 0 THEN NaN
     ELSE Num(IF neg THEN 0 - r[1] ELSE r[1], r[2])

\* num / 100
DivideBy100_not(num) == num

DivideBy100(num) == Num(num.m, num.e + 2)

\* trimmed.match(/^(-?[\d,]+\.?\d*)\s*%$/): the captured group, or <<"!">>
\* when the pattern does not match
PercentMatch(s) ==
  IF s # <<>> /\ s[Len(s)] = "%"
     /\ NumberMatch(TrimRight(SubSeq(s, 1, Len(s) - 1)))
    THEN TrimRight(SubSeq(s, 1, Len(s) - 1))
    ELSE <<"!">>

\* /^\d{4}-\d{2}-\d{2}$/.test(trimmed)
SimpleDatePattern(s) ==
  /\ Len(s) = 10
  /\ \A i \in {1, 2, 3, 4, 6, 7, 9, 10} : s[i] \in DigitSet
  /\ s[5] = "-"
  /\ s[8] = "-"

IsLeapYear(y) == y % 400 = 0 \/ (y % 4 = 0 /\ y % 100 # 0)

DaysInMonth(y, mo) ==
  IF mo = 2 THEN (IF IsLeapYear(y) THEN 29 ELSE 28)
  ELSE IF mo \in {4, 6, 9, 11} THEN 30
  ELSE 31

\* parseISO of a YYYY-MM-DD string: the Date, or NaN for an Invalid Date
ParseISO(s) ==
  LET y == 1000 * DigitVal(s[1]) + 100 * DigitVal(s[2])
             + 10 * DigitVal(s[3]) + DigitVal(s[4])
      mo == 10 * DigitVal(s[6]) + DigitVal(s[7])
      d == 10 * DigitVal(s[9]) + DigitVal(s[10])
  IN IF mo \in 1..12 /\ d >= 1 /\ d <= DaysInMonth(y, mo)
       THEN DateVal(y, mo, d)
       ELSE NaN

\* trimmed.includes('(') && trimmed.includes(')')
HasParens(s) == Includes(s, "(") /\ Includes(s, ")")

WordTrue == {<<"t", "r", "u", "e">>, <<"U+CC38">>, <<"y", "e", "s">>}

WordFalse == {<<"f", "a", "l", "s", "e">>, <<"U+AC70", "U+C9D3">>, <<"n", "o">>}

\* lines 230-253 of normalizeCell: the date rule, the boolean rule and the
\* default, on the trimmed string
DateBoolOrText(trimmed) ==
  IF SimpleDatePattern(trimmed) /\ ParseISO(trimmed) # NaN
    THEN ParseISO(trimmed)
  ELSE IF ToLowerCase(trimmed) \in WordTrue THEN Bool(TRUE)
  ELSE IF ToLowerCase(trimmed) \in WordFalse THEN Bool(FALSE)
  ELSE Str(trimmed)

\* lines 220-253 of normalizeCell: the percent rule and what follows it
PercentOrLater(trimmed) ==
  LET g == PercentMatch(trimmed)
  IN IF g # <<"!">> /\ ParseFloat(RemoveCommas(g)) # NaN
       THEN DivideBy100(ParseFloat(RemoveCommas(g)))
       ELSE DateBoolOrText(trimmed)

\* lines 210-253 of normalizeCell: the number rule and what follows it
NumberOrLater(trimmed) ==
  IF NumberMatch(trimmed) /\ ~Includes(trimmed, "(")
     /\ ParseFloat(RemoveCommas(trimmed)) # NaN
    THEN ParseFloat(RemoveCommas(trimmed))
    ELSE PercentOrLater(trimmed)

normalizeCell(value) ==
  IF value = <<>> \/ Trim(value) = <<>> THEN Str(<<>>)
  ELSE IF HasParens(Trim(value)) THEN Str(Trim(value))
  ELSE NumberOrLater(Trim(value))

\* normalizeWorkbook's cell mapper: typeof cell === 'string' ?
\* normalizeCell(cell) : cell
NormalizeIfString(cell) ==
  IF cell.t = "s" THEN normalizeCell(cell.v) ELSE cell

(***************************************************************************)
(* Inputs of the cell specification                                        *)
(***************************************************************************)
CellFragments ==
  { <<"1">>, <<"0">>, <<",">>, <<".">>, <<"-">>, <<"%">>, <<" ">>, <<"(">>,
    <<")">>, <<"x">>, <<"n", "o">>, <<"U+CC38">>,
    <<"2", "0", "2", "4", "-", "0", "2", "-", "2", "9">>,
    <<"2", "0", "2", "3", "-", "0", "2", "-", "2", "9">> }

RECURSIVE Concats(_, _)
Concats(frags, n) ==
  IF n = 0 THEN {<<>>}
  ELSE LET S == Concats(frags, n - 1)
       IN S \cup {s \o f : s \in S, f \in frags}

CellWords ==
  { <<"t", "r", "u", "e">>, <<"T", "R", "U", "E">>, <<"T", "r", "u", "e">>,
    <<"y", "e", "s">>, <<"Y", "E", "S">>, <<"U+CC38">>,
    <<"f", "a", "l", "s", "e">>, <<"F", "a", "l", "s", "E">>,
    <<"n", "o">>, <<"N", "O">>, <<"U+AC70", "U+C9D3">>,
    <<"R", "e", "v", "e", "n", "u", "e">>, <<"U+AC70">>,
    <<"1", ",", "2", "3", "4">>, <<"1", ",", "2", "3", "4", ".", "5">>,
    <<"-", "1", "2", ",", "3", "4", "5", ".", "6", "0">>,
    <<"1", ",", "2", "3", "4", ",", "5", "6", "7">>,
    <<"8", "5">>, <<"0", ".", "5">>, <<"1", "2", ".">>, <<",", ".", "5">>,
    <<"1", ",", ",", "2">>, <<"-", ",">>, <<"-", "0">>,
    <<"2", "0", "2", "4", "-", "0", "2", "-", "2", "9">>,
    <<"2", "0", "2", "3", "-", "0", "2", "-", "2", "9">>,
    <<"1", "9", "0", "0", "-", "0", "2", "-", "2", "9">>,
    <<"2", "0", "0", "0", "-", "0", "2", "-", "2", "9">>,
    <<"2", "0", "2", "4", "-", "1", "3", "-", "0", "1">>,
    <<"2", "0", "2", "4", "-", "0", "0", "-", "1", "0">>,
    <<"2", "0", "2", "4", "-", "0", "4", "-", "3", "1">>,
    <<"2", "0", "2", "4", "-", "1", "2", "-", "3", "1">>,
    <<"2", "0", "2", "4", "-", "1", "1", "-", "0", "0">>,
    <<"2", "0", "2", "4", "/", "0", "1", "/", "0", "5">>,
    <<"2", "0", "2", "4", "-", "1", "-", "5">> }

CellPrefixes == {<<>>, <<" ">>, <<"(">>, <<"\t", "(", " ">>, <<")">>, <<"-">>}

CellSuffixes ==
  {<<>>, <<" ">>, <<")">>, <<"%">>, <<" ", "%">>, <<"%", " ">>, <<")", "%">>,
   <<"(">>, <<"\n">>}

CellInputs ==
  Concats(CellFragments, MaxCellParts)
    \cup {p \o w \o s : p \in CellPrefixes, w \in CellWords, s \in CellSuffixes}

(***************************************************************************)
(* The cell specification: normalizeCell applied to a string, then the     *)
(* normalizeWorkbook cell mapper applied to its result.                    *)
(***************************************************************************)
NoCell == [t |-> "none"]

InitCell ==
  /\ cellIn \in CellInputs
  /\ cellOut = NoCell
  /\ cellOut2 = NoCell
  /\ cellPc = "in"
  /\ buffer = [bytes |-> <<>>, pad |-> 0]
  /\ originalFilename = <<>>
  /\ forceTextRecovery = FALSE
  /\ pc = "off"
  /\ calls = <<>>
  /\ workbook = <<>>
  /\ recovered = <<>>
  /\ readResult = NoCell
  /\ writeResult = NoCell
  /\ result = NoCell
  /\ fn = "none"
  /\ fnArgs = NoCell
  /\ fnResult = NoCell
  /\ req = NoCell
  /\ httpPc = "off"
  /\ parsed = NoCell
  /\ conversion = NoCell
  /\ responses = <<>>

CellNormalize ==
  /\ cellPc = "in"
  /\ cellOut' = normalizeCell(cellIn)
  /\ cellPc' = "out"
  /\ UNCHANGED <<cellIn, cellOut2, pipeVars, fnVars, httpVars>>

CellRenormalize ==
  /\ cellPc = "out"
  /\ cellOut2' = NormalizeIfString(cellOut)
  /\ cellPc' = "again"
  /\ UNCHANGED <<cellIn, cellOut, pipeVars, fnVars, httpVars>>

NextCell == CellNormalize \/ CellRenormalize

SpecCell == InitCell /\ [][NextCell]_vars

(***************************************************************************)
(* detectAndDecode.  A buffer is a sequence of bytes 0..255.               *)
(***************************************************************************)
Printable ==
  <<" ", "!", "\"", "#", "$", "%", "&", "'", "(", ")", "*", "+", ",", "-",
    ".", "/", "0", "1", "2", "3", "4", "5", "6", "7", "8", "9", ":", ";",
    "<", "=", ">", "?", "@", "A", "B", "C", "D", "E", "F", "G", "H", "I",
    "J", "K", "L", "M", "N", "O", "P", "Q", "R", "S", "T", "U", "V", "W",
    "X", "Y", "Z", "[", "\\", "]", "^", "_", "U+0060", "a", "b", "c", "d", "e",
    "f", "g", "h", "i", "j", "k", "l", "m", "n", "o", "p", "q", "r", "s",
    "t", "u", "v", "w", "x", "y", "z", "{", "|", "}", "~">>

HexDigits ==
  <<"0", "1", "2", "3", "4", "5", "6", "7", "8", "9", "A", "B", "C", "D",
    "E", "F">>

RECURSIVE HexString(_, _)
HexString(n, k) ==
  IF k = 0 THEN "" ELSE HexString(n \div 16, k - 1) \o HexDigits[(n % 16) + 1]

\* the character with code point cp (below 0x10000)
CharOf(cp) ==
  IF cp >= 32 /\ cp <= 126 THEN Printable[cp - 31]
  ELSE IF cp = 9 THEN "\t"
  ELSE IF cp = 10 THEN "\n"
  ELSE IF cp = 13 THEN "\r"
  ELSE "U+" \o HexString(cp, 4)

ReplacementChar == "U+FFFD"

IsContinuation(b) == b >= 128 /\ b <= 191

\* buffer.toString('utf8') from position i on: one-, two- and three-byte
\* sequences; a byte that starts no well-formed sequence gives U+FFFD.  Lead
\* bytes of four-byte sequences (0xF0..0xF4) are not in the model's buffers.
RECURSIVE Utf8From(_, _)
Utf8From(buf, i) ==
  IF i > Len(buf) THEN <<>>
  ELSE LET b == buf[i]
           b2 == IF i + 1 <= Len(buf) THEN buf[i + 1] ELSE 0
           b3 == IF i + 2 <= Len(buf) THEN buf[i + 2] ELSE 0
       IN IF b < 128 THEN <<CharOf(b)>> \o Utf8From(buf, i + 1)
          ELSE IF b >= 194 /\ b <= 223 /\ IsContinuation(b2)
            THEN <<CharOf((b - 192) * 64 + (b2 - 128))>> \o Utf8From(buf, i + 2)
          ELSE IF /\ b >= 224 /\ b <= 239
                  /\ IsContinuation(b2) /\ IsContinuation(b3)
                  /\ (b = 224 => b2 >= 160)
                  /\ (b = 237 => b2 <= 159)
            THEN <<CharOf((b - 224) * 4096 + (b2 - 128) * 64 + (b3 - 128))>>
                   \o Utf8From(buf, i + 3)
          ELSE <<ReplacementChar>> \o Utf8From(buf, i + 1)

Utf8Decode(buf) == Utf8From(buf, 1)

\* the two-byte sequences of the cp949 table that the model's bytes can form
Cp949Pairs ==
  { <<161, 161, 12288>>, <<161, 176, 8220>>, <<161, 189, 12305>>,
    <<161, 191, 215>>, <<161, 234, 8596>>, <<161, 239, 8765>>,
    <<176, 161, 44032>>, <<176, 176, 44057>>, <<176, 189, 44089>>,
    <<176, 191, 44096>>, <<176, 197, 44144>>, <<176, 234, 44236>>,
    <<176, 239, 44260>>, <<189, 161, 49711>>, <<189, 176, 49788>>,
    <<189, 189, 49836>>, <<189, 191, 49844>>, <<189, 234, 50052>>,
    <<189, 239, 50137>>, <<191, 161, 50640>>, <<191, 176, 50684>>,
    <<191, 189, 50713>>, <<191, 191, 50716>>, <<191, 234, 50855>>,
    <<191, 239, 50872>>, <<193, 254, 51667>>, <<194, 252, 52280>>,
    <<234, 161, 36939>>, <<234, 176, 23195>>, <<234, 189, 33489>>,
    <<234, 191, 36677>>, <<234, 234, 24188>>, <<234, 239, 24840>>,
    <<239, 161, 29006>>, <<239, 176, 37523>>, <<239, 189, 31680>>,
    <<239, 191, 21344>>, <<239, 234, 29693>>, <<239, 239, 31243>> }

\* iconv.decode(buffer, 'euc-kr') and 'cp949' (iconv-lite's one cp949 codec):
\* an unassigned sequence gives U+FFFD for its first byte and the scan goes on
\* with the byte after it
RECURSIVE Cp949From(_, _)
Cp949From(buf, i) ==
  IF i > Len(buf) THEN <<>>
  ELSE IF buf[i] < 128 THEN <<CharOf(buf[i])>> \o Cp949From(buf, i + 1)
  ELSE IF i + 1 <= Len(buf)
          /\ \E p \in Cp949Pairs : p[1] = buf[i] /\ p[2] = buf[i + 1]
    THEN <<CharOf((CHOOSE p \in Cp949Pairs :
                     p[1] = buf[i] /\ p[2] = buf[i + 1])[3])>>
           \o Cp949From(buf, i + 2)
  ELSE <<ReplacementChar>> \o Cp949From(buf, i + 1)

\* iconv.decode(buffer, 'latin1'): every byte is its own code point
Latin1Decode(buf) == [i \in 1..Len(buf) |-> CharOf(buf[i])]

\* the codecs of iconv-lite the model knows, by lower-case name
KnownEncodings == {"euc-kr", "cp949", "utf8", "utf-8", "latin1", "iso-8859-1"}

\* iconv.decode(buffer, encoding)
IconvDecode(buf, encoding) ==
  IF encoding \in {"euc-kr", "cp949"} THEN Cp949From(buf, 1)
  ELSE IF encoding \in {"utf8", "utf-8"} THEN Utf8Decode(buf)
  ELSE Latin1Decode(buf)

\* what jschardet's detect may return: null, or an encoding name with a
\* confidence in hundredths; "throws" stands for an exception
DetectorResults ==
  { [encoding |-> "", confidence |-> 0],
    [encoding |-> "euc-kr", confidence |-> 99],
    [encoding |-> "euc-kr", confidence |-> 70],
    [encoding |-> "x-cp949-like", confidence |-> 95],
    [encoding |-> "iso-8859-1", confidence |-> 73],
    [encoding |-> "koi8-x", confidence |-> 90],
    [encoding |-> "throws", confidence |-> 0] }

ConfidenceThreshold == 70

\* the test for the exact name 'euc-kr' only
IsKoreanName_exact(encoding) == encoding = "euc-kr"

\* detected.encoding.toLowerCase() includes 'euc-kr' or 'cp949'
IsKoreanName(encoding) == encoding \in {"euc-kr", "cp949", "x-cp949-like"}

\* lines 73-89: the list of encodings from the k-th on, then latin1
FallbackEncodings == <<"euc-kr", "cp949", "utf8", "latin1">>

RECURSIVE TryEncodings(_, _)
TryEncodings(buf, k) ==
  IF k > Len(FallbackEncodings) THEN IconvDecode(buf, "latin1")
  ELSE LET decoded == IconvDecode(buf, FallbackEncodings[k])
       IN IF decoded # <<>> /\ ~Includes(decoded, ReplacementChar)
            THEN decoded
            ELSE TryEncodings(buf, k + 1)

\* detectAndDecode(buffer), with the result `detected` of the detector
detectAndDecode(buf, detected) ==
  IF ~Includes(Utf8Decode(buf), ReplacementChar) THEN Utf8Decode(buf)
  ELSE IF /\ detected.encoding \notin {"", "throws"}
          /\ detected.confidence > ConfidenceThreshold
          /\ IsKoreanName(detected.encoding)
    THEN IconvDecode(buf, "euc-kr")
  ELSE IF /\ detected.encoding \notin {"", "throws"}
          /\ detected.confidence > ConfidenceThreshold
          /\ detected.encoding \in KnownEncodings
    THEN IconvDecode(buf, detected.encoding)
  ELSE TryEncodings(buf, 1)


(***************************************************************************)
(* detectDelimiter                                                         *)
(***************************************************************************)
\* String.prototype.split on a one-character separator
RECURSIVE SplitFrom(_, _, _, _)
SplitFrom(s, c, i, cur) ==
  IF i > Len(s) THEN <<cur>>
  ELSE IF s[i] = c THEN <<cur>> \o SplitFrom(s, c, i + 1, <<>>)
  ELSE SplitFrom(s, c, i + 1, Append(cur, s[i]))

Split(s, c) == SplitFrom(s, c, 1, <<>>)

\* .filter(line => line.trim())
NonBlankLines(lines) == SelectSeq(lines, LAMBDA l : Trim(l) # <<>>)

\* .slice(0, n)
Slice0(seq, n) == SubSeq(seq, 1, IF Len(seq) < n THEN Len(seq) ELSE n)

SampleLines == 10

\* the candidates, in the order they are tried
Delimiters == <<"\t", ",", ";", "|">>

\* the column counts pushed for one candidate: line.split(delimiter).length
\* for each sampled line, kept when it is greater than 1
RECURSIVE ColumnCounts(_, _)
ColumnCounts(lines, delimiter) ==
  IF lines = <<>> THEN <<>>
  ELSE LET columnCount == Len(Split(Head(lines), delimiter))
       IN (IF columnCount > 1 THEN <<columnCount>> ELSE <<>>)
            \o ColumnCounts(Tail(lines), delimiter)

RECURSIVE SumSeq(_)
SumSeq(q) == IF q = <<>> THEN 0 ELSE Head(q) + SumSeq(Tail(q))

MaxOf(q) == CHOOSE x \in {q[i] : i \in 1..Len(q)} : \A i \in 1..Len(q) : q[i] <= x

MinOf(q) == CHOOSE x \in {q[i] : i \in 1..Len(q)} : \A i \in 1..Len(q) : q[i] >= x

WideHeader == 10

\* ten times the score of a candidate.  With S the sum and n the number of
\* the counts, avgColumns = S / n >= 2, so Math.max(avgColumns, 1) is
\* avgColumns and
\*   score = avgColumns * max(consistency, 0.5) * n
\*         = 0.8 * S                        when maxCols > 10
\*         = max(S - (maxCols - minCols) * n, 0.5 * S)   otherwise
Score10(columnCounts) ==
  IF columnCounts = <<>> THEN 0
  ELSE LET S == SumSeq(columnCounts)
           n == Len(columnCounts)
           spread == MaxOf(columnCounts) - MinOf(columnCounts)
       IN IF MaxOf(columnCounts) > WideHeader THEN 8 * S
          ELSE IF 10 * (S - spread * n) > 5 * S THEN 10 * (S - spread * n)
          ELSE 5 * S

\* the loop with the test score >= maxScore: of the candidates with the
\* highest score the last one would be kept
RECURSIVE BestDelimiter_lastWins(_, _, _, _)
BestDelimiter_lastWins(lines, k, best, maxScore) ==
  IF k > Len(Delimiters) THEN best
  ELSE LET score == Score10(ColumnCounts(lines, Delimiters[k]))
       IN IF score > 0 /\ score >= maxScore
            THEN BestDelimiter_lastWins(lines, k + 1, Delimiters[k], score)
            ELSE BestDelimiter_lastWins(lines, k + 1, best, maxScore)

\* the loop over the candidates from the k-th on: best and maxScore are the
\* loop's bestDelimiter and maxScore
RECURSIVE BestDelimiter(_, _, _, _)
BestDelimiter(lines, k, best, maxScore) ==
  IF k > Len(Delimiters) THEN best
  ELSE LET score == Score10(ColumnCounts(lines, Delimiters[k]))
       IN IF score > maxScore
            THEN BestDelimiter(lines, k + 1, Delimiters[k], score)
            ELSE BestDelimiter(lines, k + 1, best, maxScore)

detectDelimiter(text) ==
  BestDelimiter(NonBlankLines(Slice0(Split(text, "\n"), SampleLines)), 1, ",", 0)

(***************************************************************************)
(* parseCSVLine                                                            *)
(***************************************************************************)
\* the scanning loop from position i on; quoteChar is "" outside quotes
RECURSIVE ScanLine(_, _, _, _, _, _)
ScanLine(line, delimiter, i, current, quoteChar, cells) ==
  IF i > Len(line) THEN Append(cells, Trim(current))
  ELSE LET char == line[i]
       IN IF quoteChar = ""
            THEN IF char = "\"" \/ char = "'"
                   THEN ScanLine(line, delimiter, i + 1, current, char, cells)
                 ELSE IF char = delimiter
                   THEN ScanLine(line, delimiter, i + 1, <<>>, "",
                                 Append(cells, Trim(current)))
                 ELSE ScanLine(line, delimiter, i + 1, Append(current, char),
                               "", cells)
          ELSE IF char = quoteChar
            THEN IF i + 1 <= Len(line) /\ line[i + 1] = quoteChar
                   THEN ScanLine(line, delimiter, i + 2, Append(current, char),
                                 quoteChar, cells)
                   ELSE ScanLine(line, delimiter, i + 1, current, "", cells)
          ELSE ScanLine(line, delimiter, i + 1, Append(current, char),
                        quoteChar, cells)

parseCSVLine_noCells(line, delimiter) ==
  IF Trim(line) = <<>> THEN <<>>
  ELSE ScanLine(Trim(line), delimiter, 1, <<>>, "", <<>>)

parseCSVLine(line, delimiter) == ScanLine(Trim(line), delimiter, 1, <<>>, "", <<>>)

(***************************************************************************)
(* textBasedRecovery                                                       *)
(***************************************************************************)
\* decimal digits of a natural number
RECURSIVE NatToChars(_)
NatToChars(n) ==
  IF n < 10 THEN <<Digits[n + 1]>>
  ELSE NatToChars(n \div 10) \o <<Digits[(n % 10) + 1]>>

\* Array.prototype.indexOf (0-based) of a value the array holds
IndexOf(cells, cell) ==
  (CHOOSE i \in 1..Len(cells) :
     cells[i] = cell /\ \A j \in 1..(i - 1) : cells[j] # cell) - 1

\* the template `컬럼${n}`
ColumnLabel(n) == <<"U+CEEC", "U+B7FC">> \o NatToChars(n)

\* line 288: cells.map(cell => cell.trim() || `컬럼${cells.indexOf(cell) + 1}`)
HeaderCells(cells) ==
  [i \in 1..Len(cells) |->
     IF Trim(cells[i]) # <<>> THEN Str(Trim(cells[i]))
     ELSE Str(ColumnLabel(IndexOf(cells, cells[i]) + 1))]

\* line 289: cells.map(cell => normalizeCell(cell))
DataCells(cells) == [i \in 1..Len(cells) |-> normalizeCell(cells[i])]

\* line 295: processedCells.some(cell => cell !== null && cell !== '')
SomeNonEmpty_truthy(row) ==
  \E i \in 1..Len(row) :
    /\ row[i] # [t |-> "null"]
    /\ row[i] # Str(<<>>)
    /\ row[i] # [t |-> "n", m |-> 0, e |-> 0]
    /\ row[i] # Bool(FALSE)

SomeNonEmpty(row) ==
  \E i \in 1..Len(row) : row[i] # [t |-> "null"] /\ row[i] # Str(<<>>)

\* the loop with maxColumns raised only for the lines that are kept
RECURSIVE RecoverLines_keptWidth(_, _, _, _, _)
RecoverLines_keptWidth(lines, delimiter, lineIndex, data, maxColumns) ==
  IF lineIndex >= Len(lines) THEN <<data, maxColumns>>
  ELSE LET cells == parseCSVLine(lines[lineIndex + 1], delimiter)
           processedCells == IF lineIndex = 0 THEN HeaderCells(cells)
                             ELSE DataCells(cells)
           newMax == IF Len(processedCells) > maxColumns
                       THEN Len(processedCells) ELSE maxColumns
       IN IF lineIndex = 0 \/ SomeNonEmpty(processedCells)
            THEN RecoverLines_keptWidth(lines, delimiter, lineIndex + 1,
                                        Append(data, processedCells), newMax)
            ELSE RecoverLines_keptWidth(lines, delimiter, lineIndex + 1, data,
                                        maxColumns)

\* the loop over the lines from lineIndex on (0-based): <<data, maxColumns>>.
\* parseCSVLine and normalizeCell return for every string, so the catch
\* block of the loop body is never entered.
RECURSIVE RecoverLines(_, _, _, _, _)
RecoverLines(lines, delimiter, lineIndex, data, maxColumns) ==
  IF lineIndex >= Len(lines) THEN <<data, maxColumns>>
  ELSE LET cells == parseCSVLine(lines[lineIndex + 1], delimiter)
           processedCells == IF lineIndex = 0 THEN HeaderCells(cells)
                             ELSE DataCells(cells)
           newMax == IF Len(processedCells) > maxColumns
                       THEN Len(processedCells) ELSE maxColumns
       IN IF lineIndex = 0 \/ SomeNonEmpty(processedCells)
            THEN RecoverLines(lines, delimiter, lineIndex + 1,
                              Append(data, processedCells), newMax)
            ELSE RecoverLines(lines, delimiter, lineIndex + 1, data, newMax)

\* lines 351-355: while (row.length < maxColumns) row.push('')
PadRow_none(row, maxColumns) == row

PadRow(row, maxColumns) ==
  [i \in 1..(IF Len(row) < maxColumns THEN maxColumns ELSE Len(row)) |->
     IF i <= Len(row) THEN row[i] ELSE Str(<<>>)]

\* line 374: data.length === 0
DataIsEmpty_never(data) == FALSE

DataIsEmpty(data) == Len(data) = 0

\* the array `data` of textBasedRecovery at line 374, from the decoded text
RecoveredData(text) ==
  LET r == RecoverLines(NonBlankLines(Split(text, "\n")),
                        detectDelimiter(text), 0, <<>>, 0)
  IN [i \in 1..Len(r[1]) |-> PadRow(r[1][i], r[2])]


(***************************************************************************)
(* The worksheet: XLSX.utils.aoa_to_sheet and XLSX.utils.sheet_to_json     *)
(***************************************************************************)
\* two decimal digits, as the date format's yy
TwoChars(n) == <<Digits[((n \div 10) % 10) + 1], Digits[(n % 10) + 1]>>

\* the number format m/d/yy that aoa_to_sheet gives a Date cell
FormatMDYY(date) ==
  NatToChars(date.mo) \o <<"/">> \o NatToChars(date.d) \o <<"/">>
    \o TwoChars(date.y % 100)

\* n digits of the natural number v, zero-padded on the left
RECURSIVE FixedDigits(_, _)
FixedDigits(v, n) ==
  IF n = 0 THEN <<>>
  ELSE FixedDigits(v \div 10, n - 1) \o <<Digits[(v % 10) + 1]>>

\* the General number format of a number m / 10^e.  The numerals the model
\* reads have at most ten significant digits and a magnitude in
\* [0.0001, 10^10), where General writes the plain decimal expansion.
GeneralFormat(num) ==
  LET mag == IF num.m < 0 THEN 0 - num.m ELSE num.m
      sign == IF num.m < 0 THEN <<"-">> ELSE <<>>
  IN IF num.e = 0 THEN sign \o NatToChars(mag)
     ELSE sign \o NatToChars(mag \div Pow10(num.e)) \o <<".">>
            \o FixedDigits(mag % Pow10(num.e), num.e)

\* the cell object aoa_to_sheet makes of a value of the array: a Date becomes
\* a number cell with the date format and its formatted text w (cellDates is
\* not passed to aoa_to_sheet); null makes no cell
SheetCell(value) ==
  IF value.t = "d"
    THEN [t |-> "n", v |-> value, z |-> "m/d/yy", w |-> FormatMDYY(value)]
  ELSE IF value.t = "null" THEN [t |-> "null"]
  ELSE [t |-> value.t, v |-> value]

\* XLSX.utils.aoa_to_sheet(data)
AoaToSheet(data) ==
  [r \in 1..Len(data) |-> [c \in 1..Len(data[r]) |-> SheetCell(data[r][c])]]

\* the value sheet_to_json gives for a cell under {header: 1, defval: null,
\* raw: false}: the formatted text of the cell, null where there is no cell
JsonCell(cell) ==
  IF cell.t = "null" THEN [t |-> "null"]
  ELSE IF cell.t = "s" THEN cell.v
  ELSE IF cell.t = "b"
    THEN Str(IF cell.v.v THEN <<"T", "R", "U", "E">>
             ELSE <<"F", "A", "L", "S", "E">>)
  ELSE IF "w" \in DOMAIN cell THEN Str(cell.w)
  ELSE Str(GeneralFormat(cell.v))

\* XLSX.utils.sheet_to_json(worksheet, {header: 1, defval: null, raw: false})
SheetToJson(sheet) ==
  [r \in 1..Len(sheet) |-> [c \in 1..Len(sheet[r]) |-> JsonCell(sheet[r][c])]]

(***************************************************************************)
(* textBasedRecovery: the catch block                                      *)
(***************************************************************************)
\* The catch block of the loop body (lines 300-347).  The block is entered
\* when the try block throws; parseCSVLine and normalizeCell return for every
\* string, so no line makes the program enter it, and it is modelled as the
\* code that would run.
\* String(cell) of a value normalizeCell returns.  A number m / 10^e whose
\* magnitude is 0 or in [10^-6, 10^21) is written as its plain decimal
\* expansion.  A Date is the local midnight parseISO returns, written in the
\* UTC zone as "Thu Feb 29 2024 00:00:00 GMT+0000 (UTC)"; another zone changes
\* the offset and the name between the parentheses.
StringOf(cell) ==
  LET dayNames ==
        << <<"S", "u", "n">>, <<"M", "o", "n">>, <<"T", "u", "e">>,
           <<"W", "e", "d">>, <<"T", "h", "u">>, <<"F", "r", "i">>,
           <<"S", "a", "t">> >>
      monthNames ==
        << <<"J", "a", "n">>, <<"F", "e", "b">>, <<"M", "a", "r">>,
           <<"A", "p", "r">>, <<"M", "a", "y">>, <<"J", "u", "n">>,
           <<"J", "u", "l">>, <<"A", "u", "g">>, <<"S", "e", "p">>,
           <<"O", "c", "t">>, <<"N", "o", "v">>, <<"D", "e", "c">> >>
      \* the day of the week of a date, 0 for Sunday
      dayOfWeek(date) ==
        LET t == <<0, 3, 2, 5, 0, 3, 5, 1, 4, 6, 2, 4>>
            y == IF date.mo < 3 THEN date.y - 1 ELSE date.y
        IN (y + (y \div 4) - (y \div 100) + (y \div 400) + t[date.mo] + date.d) % 7
      dateToString(date) ==
        dayNames[dayOfWeek(date) + 1] \o <<" ">>
          \o monthNames[date.mo] \o <<" ">>
          \o TwoChars(date.d) \o <<" ">> \o FixedDigits(date.y, 4)
          \o <<" ", "0", "0", ":", "0", "0", ":", "0", "0", " ", "G", "M", "T",
               "+", "0", "0", "0", "0", " ", "(", "U", "T", "C", ")">>
      numberToString(num) ==
        LET mag == IF num.m < 0 THEN 0 - num.m ELSE num.m
            sign == IF num.m < 0 THEN <<"-">> ELSE <<>>
        IN IF num.e = 0 THEN sign \o NatToChars(mag)
           ELSE sign \o NatToChars(mag \div Pow10(num.e)) \o <<".">>
                  \o FixedDigits(mag % Pow10(num.e), num.e)
  IN IF cell.t = "s" THEN cell.v
     ELSE IF cell.t = "b"
       THEN (IF cell.v THEN <<"t", "r", "u", "e">>
             ELSE <<"f", "a", "l", "s", "e">>)
     ELSE IF cell.t = "d" THEN dateToString(cell)
     ELSE numberToString(cell)

\* line 326: line.split(/\s+/).filter(cell => cell.trim()): the runs of
\* characters that are not white space, from position i on
RECURSIVE WordsFrom(_, _, _)
WordsFrom(line, i, cur) ==
  IF i > Len(line) THEN (IF cur = <<>> THEN <<>> ELSE <<cur>>)
  ELSE IF line[i] \in WhiteSpace
    THEN (IF cur = <<>> THEN <<>> ELSE <<cur>>) \o WordsFrom(line, i + 1, <<>>)
  ELSE WordsFrom(line, i + 1, Append(cur, line[i]))

\* lines 303-336: fallbackCells, when the first `failed` of the five methods
\* throw.  None of them throws on a string, so in the program failed is 0.
FallbackCells(line, delimiter, failed) ==
  LET \* .map(cell => normalizeCell(cell.trim()))
      normalized(parts) ==
        [i \in 1..Len(parts) |-> normalizeCell(Trim(parts[i]))]
  IN IF failed = 0 THEN normalized(Split(line, delimiter))
     ELSE IF failed = 1 THEN normalized(Split(line, ","))
     ELSE IF failed = 2 THEN normalized(Split(line, "\t"))
     ELSE IF failed = 3 THEN normalized(WordsFrom(line, 1, <<>>))
     ELSE <<normalizeCell(Trim(line))>>

\* lines 339-341: processedFallbackCells
ProcessedFallbackCells(fallbackCells, lineIndex) ==
  IF lineIndex = 0
    THEN [i \in 1..Len(fallbackCells) |->
            IF Trim(StringOf(fallbackCells[i])) # <<>>
              THEN Str(Trim(StringOf(fallbackCells[i])))
              ELSE Str(ColumnLabel(IndexOf(fallbackCells, fallbackCells[i]) + 1))]
    ELSE [i \in 1..Len(fallbackCells) |->
            normalizeCell(StringOf(fallbackCells[i]))]

(***************************************************************************)
(* sanitizeFilename and normalizeWorkbook                                  *)
(***************************************************************************)
\* the characters of /[\w가-힣.\-_]/
IsNameChar(c) ==
  \/ c \in DigitSet
  \/ \E i \in 1..26 : c = UpperLetters[i] \/ c = LowerLetters[i]
  \/ c \in {"_", ".", "-"}
  \/ c \in {"U+CC38", "U+AC70", "U+C9D3", "U+CEEC", "U+B7FC", "U+AC00"}

\* .replace(/[^\w가-힣.\-_]/g, '_')
ReplaceUnsafe(s) == [i \in 1..Len(s) |-> IF IsNameChar(s[i]) THEN s[i] ELSE "_"]

\* .replace(/_{2,}/g, '_')
RECURSIVE CollapseUnderscores(_)
CollapseUnderscores(s) ==
  IF Len(s) < 2 THEN s
  ELSE IF s[1] = "_" /\ s[2] = "_" THEN CollapseUnderscores(Tail(s))
  ELSE <<s[1]>> \o CollapseUnderscores(Tail(s))

DefaultName ==
  <<"c", "o", "n", "v", "e", "r", "t", "e", "d", "_", "f", "i", "l", "e">>

sanitizeFilename_noDefault(filename) ==
  Trim(CollapseUnderscores(ReplaceUnsafe(filename)))

sanitizeFilename(filename) ==
  LET sanitized == Trim(CollapseUnderscores(ReplaceUnsafe(filename)))
  IN IF sanitized # <<>> THEN sanitized ELSE DefaultName

SheetNameLength == 31

\* line 427: sanitizeFilename(sheetName).substring(0, 31)
safeSheetName(sheetName) == Slice0(sanitizeFilename(sheetName), SheetNameLength)

\* lines 419-421: every string of jsonData goes through normalizeCell
NormalizeRows(jsonData) ==
  [r \in 1..Len(jsonData) |->
     [c \in 1..Len(jsonData[r]) |-> NormalizeIfString(jsonData[r][c])]]

\* one sheet of normalizeWorkbook: [name, sheet]
NormalizeSheet(ws) ==
  [name |-> safeSheetName(ws.name),
   sheet |-> AoaToSheet(NormalizeRows(SheetToJson(ws.sheet)))]

\* a wb is the sequence of its sheets, in the order of SheetNames
normalizeWorkbook(wb) ==
  [i \in 1..Len(wb) |-> NormalizeSheet(wb[i])]

\* the cell values of a sheet, as aoa_to_sheet stored them
SheetValues(sheet) ==
  [r \in 1..Len(sheet) |-> [c \in 1..Len(sheet[r]) |-> sheet[r][c].v]]


(***************************************************************************)
(* processFile and convertToXlsx                                           *)
(***************************************************************************)
\* String.prototype.lastIndexOf('.') + 1: the 1-based position of the last
\* '.', or 0 when there is none (lastIndexOf gives -1)
LastDot(s) ==
  IF Includes(s, ".")
    THEN CHOOSE i \in 1..Len(s) :
           s[i] = "." /\ \A j \in (i + 1)..Len(s) : s[j] # "."
    ELSE 0

SUPPORTED_EXTENSIONS ==
  { <<".", "x", "l", "s">>, <<".", "x", "l", "s", "x">>, <<".", "c", "s", "v">>,
    <<".", "t", "s", "v">>, <<".", "t", "x", "t">> }

MAX_FILE_SIZE == 52428800

\* filename.toLowerCase().substring(filename.lastIndexOf('.')): substring
\* takes a negative start as 0, so a name without '.' is its own extension
validateFileExtension(filename) ==
  LET start == IF LastDot(filename) = 0 THEN 1 ELSE LastDot(filename)
  IN SubSeq(ToLowerCase(filename), start, Len(filename))
       \in SUPPORTED_EXTENSIONS

validateFileSize(size) == size <= MAX_FILE_SIZE

\* filename.toLowerCase().split('.').pop()
FileExtension_caseSensitive(filename) ==
  LET parts == Split(filename, ".")
  IN parts[Len(parts)]

FileExtension(filename) ==
  LET parts == Split(ToLowerCase(filename), ".")
  IN parts[Len(parts)]

\* originalFilename.replace(/\.[^.]+$/, '')
BaseName(filename) ==
  IF LastDot(filename) > 0 /\ LastDot(filename) < Len(filename)
    THEN SubSeq(filename, 1, LastDot(filename) - 1)
    ELSE filename

\* `${safeBaseName}_변환완료.xlsx`
ResultFilename(filename) ==
  sanitizeFilename(BaseName(filename))
    \o <<"_", "U+BCC0", "U+D658", "U+C644", "U+B8CC", ".", "x", "l", "s", "x">>

\* buffer.length: the bytes of the model and the pad line feeds after them
BufferLength(buf) == Len(buf.bytes) + buf.pad

\* the text of a buffer.  The pad is a run of line feeds: they decode to blank
\* lines at the end of the text, which no filter keeps, so the run is cut to
\* one more than the lines detectDelimiter samples.
BufferText(buf, detected) ==
  detectAndDecode(buf.bytes, detected)
    \o [i \in 1..(IF buf.pad > SampleLines THEN SampleLines + 1 ELSE buf.pad)
          |-> "\n"]

\* lines 484-485: the header test on the first sheet read by XLSX.read
hasValidHeader_anyRow(firstSheet) == Len(SheetToJson(firstSheet)) > 0

hasValidHeader(firstSheet) ==
  LET jsonData == SheetToJson(firstSheet)
  IN /\ Len(jsonData) > 0
     /\ \E c \in 1..Len(jsonData[1]) :
          /\ jsonData[1][c].t = "s"
          /\ jsonData[1][c].v # <<>>
          /\ Trim(jsonData[1][c].v) # <<>>

\* XLSX.utils.book_append_sheet throws when the wb already has a sheet
\* of that name
AppendThrows(wb) ==
  \E i, j \in 1..Len(wb) :
    /\ i < j
    /\ safeSheetName(wb[i].name) = safeSheetName(wb[j].name)

Sheet1 == <<"S", "h", "e", "e", "t", "1">>

\* the messages of the errors, by name; convertToXlsx wraps the message of
\* what it catches
Wrapped(message) == <<"CONVERSION_FAILED">> \o message

\* lines 606-613: the result of the catch block of processFile
Failure_resultName(message) ==
  [success |-> FALSE, filename |-> ResultFilename(originalFilename),
   originalSize |-> BufferLength(buffer), message |-> message]

Failure(message) ==
  [success |-> FALSE, filename |-> originalFilename,
   originalSize |-> BufferLength(buffer), message |-> message]

\* lines 588-593: the size warnings
SizeWarnings_anySize(convertedSize, originalSize) ==
  IF convertedSize > 3 * originalSize THEN <<"MUCH_LARGER">>
  ELSE IF 10 * convertedSize < originalSize THEN <<"MUCH_SMALLER">>
  ELSE <<>>

SizeWarnings(convertedSize, originalSize) ==
  IF convertedSize > 3 * originalSize THEN <<"MUCH_LARGER">>
  ELSE IF 10 * convertedSize < originalSize /\ originalSize > 1000
    THEN <<"MUCH_SMALLER">>
  ELSE <<>>

\* lines 597-604
Success(convertedBuffer) ==
  [success |-> TRUE, buffer |-> convertedBuffer,
   filename |-> ResultFilename(originalFilename),
   originalSize |-> BufferLength(buffer),
   convertedSize |-> convertedBuffer.length,
   warnings |-> SizeWarnings(convertedBuffer.length, BufferLength(buffer))]

(***************************************************************************)
(* Inputs of the pipeline specification                                    *)
(***************************************************************************)
\* Buffer.from(text) for a text of ASCII characters
CodeOf(c) ==
  IF c = "\n" THEN 10
  ELSE IF c = "\t" THEN 9
  ELSE (CHOOSE i \in 1..Len(Printable) : Printable[i] = c) + 31

BytesOf(text) == [i \in 1..Len(text) |-> CodeOf(text[i])]

\* the pieces the texts of the recovery runs are made of: "1", ",", line
\* feed, space, "x", "no", ";" and a double quote
TextFragments ==
  { <<49>>, <<44>>, <<10>>, <<32>>, <<120>>, <<110, 111>>, <<59>>, <<34>> }

\* the texts of the scenarios, and buffers that are not UTF-8
SampleBuffers ==
  { <<>>,
    BytesOf(<<" ", "\n", "\t", "\n">>),
    BytesOf(<<"n", "a", "m", "e", ",", "a", "g", "e", "\n", "A", "l", "i",
              "c", "e", ",", "3", "0", "\n", "B", "o", "b", ",", "2", "5">>),
    BytesOf(<<"2", "0", "2", "0", ",", "y", "e", "s", ",", "8", "5", "%",
              "\n", "0", ",", "n", "o">>),
    BytesOf(<<"d", ";", "(", "m", ")", "\n", "2", "0", "2", "4", "-", "0",
              "2", "-", "2", "9", ";", "1", ",", "5", "\n", ";", ";", ";">>),
    BytesOf(<<"A", "\t", "B", "\t", "C", "\n", "1", "\t", "2", "\t", "3">>),
    BytesOf(<<"a", ",", "b", "\n", ",", "\n", "0", ",", "\n", "\"", " ", "\"",
              "\n", "\n", "f", "a", "l", "s", "e", ",">>),
    <<176, 161, 44, 49, 10, 255, 44, 176>> }

Filenames ==
  { <<"a", ".", "c", "s", "v">>, <<"a", ".", "X", "l", "s", "X">>,
    <<"b", " ", "c", ".", "d", ".", "t", "x", "t">>, <<"x", "l", "s", "x">>,
    <<"a", ".", "e", "x", "e">>, <<".", "x", "l", "s">>,
    <<"a", ".", "x", "l", "s", "x", ".">>, <<"c", "s", "v">> }

\* the pad of a buffer: none, some, and what makes it reach the size limit
Pads == {0, 1000, 3000, MAX_FILE_SIZE}

\* a run of processFile: the recovery of every text of at most MaxTextParts
\* pieces, and every sample buffer under every name, flag and pad
Runs ==
  { [buffer |-> [bytes |-> b, pad |-> 0], filename |-> <<"a", ".", "c", "s", "v">>,
     forceTextRecovery |-> TRUE] : b \in Concats(TextFragments, MaxTextParts) }
    \cup
  { [buffer |-> [bytes |-> b, pad |-> p], filename |-> f,
     forceTextRecovery |-> g] :
       b \in SampleBuffers, p \in Pads, f \in Filenames, g \in BOOLEAN }

Null == [t |-> "null"]

\* what XLSX.read may give for a buffer: an exception, or a workbook
ReaderResults ==
  { [throws |-> TRUE, sheets |-> <<>>],
    [throws |-> FALSE, sheets |-> <<>>],
    [throws |-> FALSE, sheets |-> <<[name |-> Sheet1, sheet |-> <<>>]>>],
    [throws |-> FALSE,
     sheets |-> <<[name |-> Sheet1,
                   sheet |-> AoaToSheet(<<<<Null, Str(<<>>), Str(<<" ">>)>>,
                                          <<Str(<<"x">>), Num(1, 0), Null>>>>)]>>],
    [throws |-> FALSE,
     sheets |-> <<[name |-> <<"D", "a", "t", "a", " ", "1">>,
                   sheet |-> AoaToSheet(<<<<Str(<<"i", "d">>), Null>>,
                                          <<Num(25, 0), Str(<<" ", "8", "5", "%">>)>>,
                                          <<Bool(FALSE), DateVal(2024, 2, 29)>>>>)]>>],
    [throws |-> FALSE,
     sheets |-> <<[name |-> <<"a", " ", "b">>,
                   sheet |-> AoaToSheet(<<<<Str(<<"h">>)>>>>)],
                  [name |-> <<"a", "_", "b">>,
                   sheet |-> AoaToSheet(<<<<Str(<<"k">>)>>>>)]>>],
    [throws |-> FALSE,
     sheets |-> <<[name |-> <<"a">>,
                   sheet |-> AoaToSheet(<<<<Num(5, 1)>>>>)],
                  [name |-> <<"U+AC00", "/", "?">>, sheet |-> <<>>]>>],
    [throws |-> FALSE,
     sheets |-> <<[name |-> <<>>,
                   sheet |-> AoaToSheet(<<<<Str(<<"h">>)>>>>)],
                  [name |-> [i \in 1..33 |-> IF i > 30 THEN "*" ELSE "n"],
                   sheet |-> AoaToSheet(<<<<Str(<<"k">>)>>>>)]>>] }

\* the lengths of the buffers XLSX.write may give: on both sides of a tenth
\* and of three times the lengths of the input buffers
WrittenLengths == {99, 299, 300, 9000, 9001}

WriteResults ==
  {[throws |-> TRUE, length |-> 0]}
    \cup {[throws |-> FALSE, length |-> n] : n \in WrittenLengths}

\* processFile lines 567-577: the validation
Validate ==
  /\ pc = "processFile"
  /\ IF ~validateFileExtension(originalFilename)
       THEN /\ result' = Failure(<<"UNSUPPORTED_EXTENSION">>)
            /\ pc' = "done"
     ELSE IF ~validateFileSize(BufferLength(buffer))
       THEN /\ result' = Failure(<<"FILE_TOO_LARGE">>)
            /\ pc' = "done"
     ELSE /\ result' = result
          /\ pc' = "convertToXlsx"
  /\ UNCHANGED <<buffer, originalFilename, forceTextRecovery, calls, workbook,
                 recovered, readResult, writeResult, cellVars, fnVars, httpVars>>

\* convertToXlsx lines 438-456 and 518-521: the xlsx short cut and the choice
\* of the parser
ConvertEntry ==
  /\ pc = "convertToXlsx"
  /\ calls' = Append(calls, "convertToXlsx")
  /\ IF FileExtension(originalFilename) = <<"x", "l", "s", "x">>
       THEN /\ result' = [t |-> "returned",
                          buffer |-> [kind |-> "input",
                                      length |-> BufferLength(buffer)]]
            /\ pc' = "return"
     ELSE /\ result' = result
          /\ pc' = IF ~forceTextRecovery THEN "read" ELSE "recover"
  /\ UNCHANGED <<buffer, originalFilename, forceTextRecovery, workbook, recovered,
                 readResult, writeResult, cellVars, fnVars, httpVars>>

\* convertToXlsx lines 457-517: XLSX.read and the checks on what it read
StandardParse ==
  /\ pc = "read"
  /\ calls' = Append(calls, "XLSX.read")
  /\ \E r \in ReaderResults :
       /\ readResult' = r
       /\ IF r.throws \/ Len(r.sheets) = 0 \/ ~hasValidHeader(r.sheets[1].sheet)
            THEN /\ pc' = "recover"
                 /\ UNCHANGED workbook
            ELSE /\ workbook' = r.sheets
                 /\ pc' = "normalize"
  /\ UNCHANGED <<buffer, originalFilename, forceTextRecovery, recovered, result,
                 writeResult, cellVars, fnVars, httpVars>>

\* textBasedRecovery (lines 259-393), called at line 516 or 520; its error is
\* caught at line 540 and then by processFile
TextRecovery ==
  /\ pc = "recover"
  /\ calls' = Append(calls, "textBasedRecovery")
  /\ \E detected \in DetectorResults :
       LET data == RecoveredData(BufferText(buffer, detected))
       IN IF DataIsEmpty(data)
            THEN /\ result' = Failure(Wrapped(<<"NO_DATA">>))
                 /\ pc' = "done"
                 /\ UNCHANGED <<workbook, recovered>>
            ELSE /\ workbook' = <<[name |-> Sheet1, sheet |-> AoaToSheet(data)]>>
                 /\ recovered' = data
                 /\ pc' = "normalize"
                 /\ UNCHANGED result
  /\ UNCHANGED <<buffer, originalFilename, forceTextRecovery, readResult, writeResult, cellVars, fnVars, httpVars>>

\* convertToXlsx lines 523-526: normalizeWorkbook
Normalize ==
  /\ pc = "normalize"
  /\ calls' = Append(calls, "normalizeWorkbook")
  /\ IF AppendThrows(workbook)
       THEN /\ result' = Failure(Wrapped(<<"SHEET_EXISTS">>))
            /\ pc' = "done"
            /\ UNCHANGED workbook
       ELSE /\ workbook' = normalizeWorkbook(workbook)
            /\ pc' = "write"
            /\ UNCHANGED result
  /\ UNCHANGED <<buffer, originalFilename, forceTextRecovery, recovered,
                 readResult, writeResult, cellVars, fnVars, httpVars>>

\* convertToXlsx lines 528-543: XLSX.write, which gives a buffer of some
\* length or throws
Write ==
  /\ pc = "write"
  /\ calls' = Append(calls, "XLSX.write")
  /\ \E w \in WriteResults :
       /\ writeResult' = w
       /\ IF w.throws
            THEN /\ result' = Failure(Wrapped(<<"WRITE_ERROR">>))
                 /\ pc' = "done"
            ELSE /\ result' = [t |-> "returned",
                               buffer |-> [kind |-> "xlsx",
                                           workbook |-> workbook,
                                           length |-> w.length]]
                 /\ pc' = "return"
  /\ UNCHANGED <<buffer, originalFilename, forceTextRecovery, workbook, recovered,
                 readResult, cellVars, fnVars, httpVars>>

\* processFile lines 580-604: the result of a conversion that returned
Return ==
  /\ pc = "return"
  /\ result' = Success(result.buffer)
  /\ pc' = "done"
  /\ UNCHANGED <<buffer, originalFilename, forceTextRecovery, calls, workbook,
                 recovered, readResult, writeResult, cellVars, fnVars, httpVars>>

Next == \/ Validate
        \/ ConvertEntry
        \/ StandardParse
        \/ TextRecovery
        \/ Normalize
        \/ Write
        \/ Return


Init ==
  /\ \E run \in Runs :
       /\ buffer = run.buffer
       /\ originalFilename = run.filename
       /\ forceTextRecovery = run.forceTextRecovery
  /\ pc = "processFile"
  /\ calls = <<>>
  /\ workbook = <<>>
  /\ recovered = <<>>
  /\ readResult = NoCell
  /\ writeResult = NoCell
  /\ result = NoCell
  /\ cellIn = <<>>
  /\ cellOut = NoCell
  /\ cellOut2 = NoCell
  /\ cellPc = "off"
  /\ fn = "none"
  /\ fnArgs = NoCell
  /\ fnResult = NoCell
  /\ req = NoCell
  /\ httpPc = "off"
  /\ parsed = NoCell
  /\ conversion = NoCell
  /\ responses = <<>>

Spec == Init /\ [][Next]_vars

(***************************************************************************)
(* The helper functions called on their own                                *)
(***************************************************************************)
\* no cell is being normalized and no file is being processed
OnlyHelper ==
  /\ cellIn = <<>>
  /\ cellOut = NoCell
  /\ cellOut2 = NoCell
  /\ cellPc = "off"
  /\ buffer = [bytes |-> <<>>, pad |-> 0]
  /\ originalFilename = <<>>
  /\ forceTextRecovery = FALSE
  /\ pc = "off"
  /\ calls = <<>>
  /\ workbook = <<>>
  /\ recovered = <<>>
  /\ readResult = NoCell
  /\ writeResult = NoCell
  /\ result = NoCell

\* the sheet names given to normalizeWorkbook: of safe and unsafe characters,
\* and long enough to go over the limit
NameFragments ==
  { <<"a">>, <<" ">>, <<"_">>, <<"?", "/">>, <<"U+AC00">>, <<".">>,
    <<"-", "Z", "9">>, <<"U+00E9">>, [i \in 1..16 |-> "n"] }

SheetNameInputs == Concats(NameFragments, MaxNameParts)

InitName ==
  /\ fn = "safeSheetName"
  /\ fnArgs \in [sheetName : SheetNameInputs]
  /\ fnResult = NoCell
  /\ OnlyHelper
  /\ req = NoCell
  /\ httpPc = "off"
  /\ parsed = NoCell
  /\ conversion = NoCell
  /\ responses = <<>>

\* normalizeWorkbook line 427
CallSafeSheetName ==
  /\ fn = "safeSheetName"
  /\ fnResult = NoCell
  /\ fnResult' = [value |-> safeSheetName(fnArgs.sheetName)]
  /\ UNCHANGED <<fn, fnArgs, cellVars, pipeVars, httpVars>>

NextName == CallSafeSheetName

SpecName == InitName /\ [][NextName]_vars


\* the lines given to parseCSVLine: of quotes, delimiters, white space and
\* letters, with the line of an unterminated quote
LineFragments ==
  { <<"\"">>, <<"'">>, <<",">>, <<"\t">>, <<"a">>, <<" ">>,
    <<"\"", "a", ",">>, <<"\"", "b", ",", "c">> }

LineInputs == Concats(LineFragments, MaxLineParts)

\* the delimiters given to parseCSVLine: the candidates of detectDelimiter,
\* and strings that are no candidate
LineDelimiters == {"\t", ",", ";", "|", "\"", "ab"}

InitLine ==
  /\ fn = "parseCSVLine"
  /\ fnArgs \in [line : LineInputs, delimiter : LineDelimiters]
  /\ fnResult = NoCell
  /\ OnlyHelper
  /\ req = NoCell
  /\ httpPc = "off"
  /\ parsed = NoCell
  /\ conversion = NoCell
  /\ responses = <<>>

\* lines 147-193
CallParseCSVLine ==
  /\ fn = "parseCSVLine"
  /\ fnResult = NoCell
  /\ fnResult' = [value |-> parseCSVLine(fnArgs.line, fnArgs.delimiter)]
  /\ UNCHANGED <<fn, fnArgs, cellVars, pipeVars, httpVars>>

NextLine == CallParseCSVLine

SpecLine == InitLine /\ [][NextLine]_vars


\* the texts given to detectDelimiter: of letters, candidates, quotes and
\* line feeds, with a run of nine blank lines, two whole lines and the ten
\* pipes of a line of eleven columns
DelimiterFragments ==
  { <<"a">>, <<",">>, <<";">>, <<"\n">>, <<"\"">>, <<"\t">>,
    [i \in 1..9 |-> "\n"], <<"a", ";", "b">>, <<"c", ",", "d", ",", "e">>,
    [i \in 1..10 |-> "|"] }

DelimiterInputs == Concats(DelimiterFragments, MaxDelimiterParts)

InitDelimiter ==
  /\ fn = "detectDelimiter"
  /\ fnArgs \in [text : DelimiterInputs]
  /\ fnResult = NoCell
  /\ OnlyHelper
  /\ req = NoCell
  /\ httpPc = "off"
  /\ parsed = NoCell
  /\ conversion = NoCell
  /\ responses = <<>>

\* lines 95-142: the delimiter returned, with the lines sampled at line 96
\* and the columnCounts of the loop for each candidate
CallDetectDelimiter ==
  /\ fn = "detectDelimiter"
  /\ fnResult = NoCell
  /\ LET lines == NonBlankLines(Slice0(Split(fnArgs.text, "\n"), SampleLines))
     IN fnResult' =
          [value |-> detectDelimiter(fnArgs.text),
           lines |-> lines,
           columnCounts |->
             [k \in 1..Len(Delimiters) |-> ColumnCounts(lines, Delimiters[k])]]
  /\ UNCHANGED <<fn, fnArgs, cellVars, pipeVars, httpVars>>

NextDelimiter == CallDetectDelimiter

SpecDelimiter == InitDelimiter /\ [][NextDelimiter]_vars


\* the buffers given to detectAndDecode: of the digit 1, the EUC-KR and the
\* UTF-8 bytes of U+AC00, the byte 0xFF that starts no sequence of either
\* encoding, and the UTF-8 bytes of U+FFFD itself
InitDecode ==
  /\ fn = "detectAndDecode"
  /\ fnArgs \in
       [buffer : Concats({ <<49>>, <<176, 161>>, <<255>>, <<234, 176, 128>>,
                           <<239, 191, 189>> }, MaxDecodeParts),
        detected : DetectorResults]
  /\ fnResult = NoCell
  /\ OnlyHelper
  /\ req = NoCell
  /\ httpPc = "off"
  /\ parsed = NoCell
  /\ conversion = NoCell
  /\ responses = <<>>

\* lines 43-90: the text returned, and whether line 56 was reached, which it
\* is when line 48 did not return
CallDetectAndDecode ==
  /\ fn = "detectAndDecode"
  /\ fnResult = NoCell
  /\ fnResult' =
       [value |-> detectAndDecode(fnArgs.buffer, fnArgs.detected),
        detectorCalled |-> Includes(Utf8Decode(fnArgs.buffer), ReplacementChar)]
  /\ UNCHANGED <<fn, fnArgs, cellVars, pipeVars, httpVars>>

NextDecode == CallDetectAndDecode

SpecDecode == InitDecode /\ [][NextDecode]_vars


\* the lines given to the catch block: of a word, a numeral, a percentage, a
\* date, the comma, the tab and the space; the lines of the loop are those
\* line.trim() keeps (line 266)
InitFallback ==
  /\ fn = "fallback"
  /\ fnArgs \in
       [line : {l \in Concats({ <<"y", "e", "s">>, <<"1">>, <<"5", "0", "%">>,
                                <<",">>, <<"\t">>, <<" ">>,
                                <<"2", "0", "2", "4", "-", "0", "2", "-", "2",
                                  "9">> }, MaxFallbackParts) : Trim(l) # <<>>},
        delimiter : {"\t", ",", ";"},
        lineIndex : {0, 1}, failed : 0..4, maxColumns : {0, 2}]
  /\ fnResult = NoCell
  /\ OnlyHelper
  /\ req = NoCell
  /\ httpPc = "off"
  /\ parsed = NoCell
  /\ conversion = NoCell
  /\ responses = <<>>

\* lines 300-347: the row made of the line, whether it is pushed to data, and
\* maxColumns after the block
RunFallback ==
  /\ fn = "fallback"
  /\ fnResult = NoCell
  /\ LET row == ProcessedFallbackCells(
                  FallbackCells(fnArgs.line, fnArgs.delimiter, fnArgs.failed),
                  fnArgs.lineIndex)
         pushed == fnArgs.lineIndex = 0 \/ SomeNonEmpty(row)
     IN fnResult' =
          [row |-> row,
           pushed |-> pushed,
           maxColumns |-> IF pushed /\ Len(row) > fnArgs.maxColumns
                            THEN Len(row) ELSE fnArgs.maxColumns]
  /\ UNCHANGED <<fn, fnArgs, cellVars, pipeVars, httpVars>>

NextFallback == RunFallback

SpecFallback == InitFallback /\ [][NextFallback]_vars


(***************************************************************************)
(* The HTTP handler (src/pages/api/convert.ts)                             *)
(***************************************************************************)
\* parseFormData line 36: maxFileSize
maxFileSize == 50 * 1024 * 1024

Methods == {"OPTIONS", "POST", "GET", "DELETE"}

\* the file part of a request: none, or a file of some name (<<>> when the
\* part has no filename) and size
Uploads ==
  {[present |-> FALSE, originalFilename |-> <<>>, size |-> 0]}
    \cup [present : {TRUE},
          originalFilename : {<<>>, <<"a", ".", "c", "s", "v">>},
          size : {0, 2000, maxFileSize, maxFileSize + 1}]

\* the value of a form field, "" when the field is absent
FieldValues == {"", "true", "false"}

Requests ==
  [method : Methods, file : Uploads, forceTextRecovery : FieldValues,
   metaOnly : FieldValues, malformed : BOOLEAN]

\* what form.parse gives: an error for a body it cannot parse, formidable's
\* error 'options.maxFileSize (...) exceeded, ...' for a file over the limit,
\* else the fields and files
parseFormData(request) ==
  IF request.malformed THEN [err |-> "parse"]
  ELSE IF request.file.present /\ request.file.size > maxFileSize
    THEN [err |-> "maxFileSize"]
  ELSE [err |-> "", fields |-> [forceTextRecovery |-> request.forceTextRecovery,
                                metaOnly |-> request.metaOnly],
        files |-> request.file]

\* lines 62-70
sendError_defaultStatus(message, statusCode, code) ==
  [status |-> 400, kind |-> "error", message |-> message, code |-> code]

sendError(message, statusCode, code) ==
  [status |-> statusCode, kind |-> "error", message |-> message, code |-> code]

\* lines 156-166: the catch block of the handler
CatchError(error) ==
  IF error = "maxFileSize"
    THEN sendError("FILE_TOO_LARGE_MESSAGE", 413, "FILE_TOO_LARGE")
    ELSE sendError("SERVER_ERROR_MESSAGE", 500, "INTERNAL_ERROR")

\* what processFile may return to the handler
ConversionResults ==
  { [success |-> TRUE, buffer |-> [kind |-> "xlsx", length |-> 9001],
     filename |-> <<"a", "_", "U+BCC0", ".", "x", "l", "s", "x">>,
     originalSize |-> 2000, convertedSize |-> 9001,
     warnings |-> <<"MUCH_LARGER">>],
    [success |-> TRUE, buffer |-> [kind |-> "xlsx", length |-> 300],
     filename |-> <<"a", "_", "U+BCC0", ".", "x", "l", "s", "x">>,
     originalSize |-> 2000, convertedSize |-> 300, warnings |-> <<>>],
    [success |-> FALSE, filename |-> <<"a", ".", "c", "s", "v">>,
     originalSize |-> 2000, message |-> <<"CONVERSION_FAILED", "NO_DATA">>],
    [success |-> FALSE, filename |-> <<"a", ".", "c", "s", "v">>,
     originalSize |-> 2000, message |-> <<>>] }

InitHttp ==
  /\ req \in Requests
  /\ httpPc = "handler"
  /\ parsed = NoCell
  /\ conversion = NoCell
  /\ responses = <<>>
  /\ fn = "none"
  /\ fnArgs = NoCell
  /\ fnResult = NoCell
  /\ OnlyHelper

\* lines 76-90: the CORS headers and the method
HandleMethod ==
  /\ httpPc = "handler"
  /\ IF req.method = "OPTIONS"
       THEN /\ responses' = Append(responses, [status |-> 200, kind |-> "empty"])
            /\ httpPc' = "done"
       ELSE IF req.method # "POST"
         THEN /\ responses' =
                   Append(responses,
                          sendError("METHOD_MESSAGE", 405, "METHOD_NOT_ALLOWED"))
              /\ httpPc' = "done"
         ELSE /\ httpPc' = "parseFormData"
              /\ UNCHANGED responses
  /\ UNCHANGED <<req, parsed, conversion, cellVars, pipeVars, fnVars>>

\* lines 94-111: the form is parsed, the file and its name are looked at
ParseForm ==
  /\ httpPc = "parseFormData"
  /\ LET form == parseFormData(req)
     IN IF form.err # ""
          THEN /\ responses' = Append(responses, CatchError(form.err))
               /\ httpPc' = "done"
               /\ UNCHANGED parsed
          ELSE IF ~form.files.present
            THEN /\ responses' =
                      Append(responses, sendError("NO_FILE_MESSAGE", 400, "NO_FILE"))
                 /\ httpPc' = "done"
                 /\ UNCHANGED parsed
          ELSE IF form.files.originalFilename = <<>>
            THEN /\ responses' =
                      Append(responses,
                             sendError("NO_FILENAME_MESSAGE", 400, "NO_FILENAME"))
                 /\ httpPc' = "done"
                 /\ UNCHANGED parsed
          ELSE /\ parsed' = [uploadedFile |-> form.files,
                             forceTextRecovery |->
                               (form.fields.forceTextRecovery = "true"),
                             metaOnly |-> (form.fields.metaOnly = "true")]
               /\ httpPc' = "readFileToBuffer"
               /\ UNCHANGED responses
  /\ UNCHANGED <<req, conversion, cellVars, pipeVars, fnVars>>

\* line 114: fs.readFile gives the buffer, or fails
ReadFile ==
  /\ httpPc = "readFileToBuffer"
  /\ \E failed \in BOOLEAN :
       IF failed
         THEN /\ responses' = Append(responses, CatchError("readFile"))
              /\ httpPc' = "done"
         ELSE /\ httpPc' = "processFile"
              /\ UNCHANGED responses
  /\ UNCHANGED <<req, parsed, conversion, cellVars, pipeVars, fnVars>>

\* lines 117-123: processFile returns, a failure is answered
Convert ==
  /\ httpPc = "processFile"
  /\ \E r \in ConversionResults :
       /\ conversion' = r
       /\ IF ~r.success
            THEN /\ responses' =
                      Append(responses,
                             sendError(IF r.message # <<>> THEN r.message
                                       ELSE "FAILED_MESSAGE",
                                       500, "CONVERSION_FAILED"))
                 /\ httpPc' = "done"
            ELSE /\ httpPc' = "respond"
                 /\ UNCHANGED responses
  /\ UNCHANGED <<req, parsed, cellVars, pipeVars, fnVars>>

\* lines 128-154: the metadata or the file is sent
Respond ==
  /\ httpPc = "respond"
  /\ responses' =
       Append(responses,
              IF parsed.metaOnly
                THEN [status |-> 200, kind |-> "metadata",
                      filename |-> conversion.filename,
                      originalSize |-> conversion.originalSize,
                      convertedSize |-> conversion.convertedSize,
                      warnings |-> conversion.warnings]
                ELSE [status |-> 200, kind |-> "file",
                      buffer |-> conversion.buffer,
                      filename |-> conversion.filename,
                      originalSize |-> conversion.originalSize,
                      convertedSize |-> conversion.convertedSize,
                      warnings |-> conversion.warnings])
  /\ httpPc' = "done"
  /\ UNCHANGED <<req, parsed, conversion, cellVars, pipeVars, fnVars>>

NextHttp ==
  \/ HandleMethod
  \/ ParseForm
  \/ ReadFile
  \/ Convert
  \/ Respond

SpecHttp == InitHttp /\ [][NextHttp]_vars


(***************************************************************************)
(* Properties of normalizeCell (checked under SpecCell)                    *)
(***************************************************************************)
\* the rules of the cell normalizer, stated on the characters of the string
\* rather than by the scans above
IsBlankString(s) == \A i \in 1..Len(s) : s[i] \in WhiteSpace

TrimmedOf(s) ==
  LET solid == {i \in 1..Len(s) : s[i] \notin WhiteSpace}
  IN IF solid = {} THEN <<>>
     ELSE SubSeq(s, CHOOSE i \in solid : \A j \in solid : i <= j,
                    CHOOSE i \in solid : \A j \in solid : i >= j)

Unsigned(s) == IF s # <<>> /\ s[1] = "-" THEN Tail(s) ELSE s

\* optional '-', digits and separators, optional '.' and digits, and at least
\* one digit to give it a value
LooksNumeric(s) ==
  LET b == Unsigned(s)
      dots == {i \in 1..Len(b) : b[i] = "."}
  IN /\ \E i \in 1..Len(b) : b[i] \in DigitSet
     /\ Cardinality(dots) <= 1
     /\ \A i \in 1..Len(b) : b[i] \in DigitSet \cup {",", "."}
     /\ \A k \in dots :
          /\ k > 1
          /\ \A i \in (k + 1)..Len(b) : b[i] # ","

DigitsOf(s) == SelectSeq(s, LAMBDA c : c \in DigitSet)

\* the integer a digit string denotes, by the weight of each position
RECURSIVE WeightedSum(_, _)
WeightedSum(ds, i) ==
  IF i > Len(ds) THEN 0
  ELSE DigitVal(ds[i]) * Pow10(Len(ds) - i) + WeightedSum(ds, i + 1)

\* the value of a numeric string with its separators removed, as the pair
\* <<numerator, number of decimals>>
ValueOf(s) ==
  LET b == Unsigned(s)
      dots == {i \in 1..Len(b) : b[i] = "."}
      decimals == IF dots = {} THEN 0
                  ELSE Len(b) - (CHOOSE k \in dots : TRUE)
      mag == WeightedSum(DigitsOf(b), 1)
  IN <<IF s[1] = "-" THEN 0 - mag ELSE mag, decimals>>

\* cell is the number p[1] / 10^(p[2] + shift)
IsNumber(cell, p, shift) ==
  /\ cell.t = "n"
  /\ cell.m * Pow10(p[2] + shift) = p[1] * Pow10(cell.e)

LooksPercent(s) ==
  /\ s # <<>>
  /\ s[Len(s)] = "%"
  /\ LooksNumeric(TrimmedOf(SubSeq(s, 1, Len(s) - 1)))
  /\ s[1] \notin WhiteSpace

MonthLengths == <<31, 28, 31, 30, 31, 30, 31, 31, 30, 31, 30, 31>>

TwoDigits(s, i) == 10 * DigitVal(s[i]) + DigitVal(s[i + 1])

LooksIsoDate(s) ==
  /\ Len(s) = 10
  /\ \A i \in 1..10 : IF i \in {5, 8} THEN s[i] = "-" ELSE s[i] \in DigitSet

IsoYear(s) == 100 * TwoDigits(s, 1) + TwoDigits(s, 3)

IsCalendarDate(s) ==
  /\ LooksIsoDate(s)
  /\ TwoDigits(s, 6) \in 1..12
  /\ TwoDigits(s, 9) >= 1
  /\ \/ TwoDigits(s, 9) <= MonthLengths[TwoDigits(s, 6)]
     \/ /\ TwoDigits(s, 6) = 2
        /\ TwoDigits(s, 9) = 29
        /\ IsoYear(s) % 4 = 0
        /\ (IsoYear(s) % 100 # 0 \/ IsoYear(s) % 400 = 0)

SameLetter(a, b) ==
  \/ a = b
  \/ \E i \in 1..26 : {a, b} = {UpperLetters[i], LowerLetters[i]}

SpellsOneOf(s, words) ==
  \E w \in words : Len(w) = Len(s) /\ \A i \in 1..Len(s) : SameLetter(s[i], w[i])

\* what the first applicable rule gives for the string s
FirstRule(s) ==
  LET t == TrimmedOf(s)
  IN IF IsBlankString(s) THEN Str(<<>>)
     ELSE IF (\E i \in 1..Len(t) : t[i] = "(") /\ (\E i \in 1..Len(t) : t[i] = ")")
       THEN Str(t)
     ELSE IF LooksNumeric(t) THEN [t |-> "number"]
     ELSE IF LooksPercent(t) THEN [t |-> "percent"]
     ELSE IF IsCalendarDate(t)
       THEN DateVal(IsoYear(t), TwoDigits(t, 6), TwoDigits(t, 9))
     ELSE IF SpellsOneOf(t, WordTrue) THEN Bool(TRUE)
     ELSE IF SpellsOneOf(t, WordFalse) THEN Bool(FALSE)
     ELSE Str(t)

\* C7: for every non-blank string that contains both '(' and ')' anywhere,
\* normalizeCell returns Text equal to the trimmed string.
C7_ParensStayText ==
  (/\ cellPc # "in"
   /\ ~IsBlankString(cellIn)
   /\ \E i, j \in 1..Len(cellIn) : cellIn[i] = "(" /\ cellIn[j] = ")")
    => cellOut = Str(TrimmedOf(cellIn))

\* a string with both parentheses around a date, a boolean word or digits, and
\* white space to trim, has been normalized to the trimmed text
C7_Witness ==
  /\ cellPc = "out"
  /\ cellIn = <<"\t", "(", " ", "y", "e", "s", ")", "%">>
  /\ cellOut = Str(<<"(", " ", "y", "e", "s", ")", "%">>)

\* C8: normalizeCell is total and returns the result of the first applicable
\* rule in the order blank, parentheses, number, percent, date, boolean, text.
C8_FirstApplicableRule ==
  cellPc # "in" =>
    LET r == FirstRule(cellIn)
        t == TrimmedOf(cellIn)
    IN IF r.t = "number" THEN IsNumber(cellOut, ValueOf(t), 0)
       ELSE IF r.t = "percent"
         THEN IsNumber(cellOut,
                       ValueOf(TrimmedOf(SubSeq(t, 1, Len(t) - 1))), 2)
       ELSE cellOut = r

\* every kind of result has been produced: here a Boolean from a word in
\* capitals with white space around it
C8_Witness ==
  /\ cellPc = "out"
  /\ cellIn = <<" ", "Y", "E", "S", "\n">>
  /\ cellOut = Bool(TRUE)

\* digit groups separated by thousands separators, or plain digits
GroupedDigits(b) ==
  /\ b # <<>>
  /\ \A i \in 1..Len(b) : b[i] \in DigitSet \cup {","}
  /\ b[1] \in DigitSet
  /\ \/ \A i \in 1..Len(b) : b[i] # ","
     \/ \A i \in 1..Len(b) : b[i] = "," <=> (i < Len(b) /\ (Len(b) - i) % 4 = 3)

\* optional '-', digit groups with thousands separators, optional decimal part
WellFormedNumber(s) ==
  LET b == Unsigned(s)
      dots == {i \in 1..Len(b) : b[i] = "."}
  IN \/ dots = {} /\ GroupedDigits(b)
     \/ \E k \in dots :
          /\ dots = {k}
          /\ GroupedDigits(SubSeq(b, 1, k - 1))
          /\ k < Len(b)
          /\ \A i \in (k + 1)..Len(b) : b[i] \in DigitSet

\* the numeric pattern, optional white space and a trailing '%'
WellFormedPercent(s) ==
  /\ s # <<>>
  /\ s[Len(s)] = "%"
  /\ WellFormedNumber(TrimmedOf(SubSeq(s, 1, Len(s) - 1)))
  /\ s[1] \notin WhiteSpace

\* C9: a well-formed thousands-separated numeric string gives the Number equal
\* to its value with the separators removed; followed by optional white space
\* and '%' it gives that value divided by 100.
C9_NumericValue ==
  cellPc # "in" =>
    /\ WellFormedNumber(cellIn) => IsNumber(cellOut, ValueOf(cellIn), 0)
    /\ WellFormedPercent(cellIn) =>
         IsNumber(cellOut,
                  ValueOf(TrimmedOf(SubSeq(cellIn, 1, Len(cellIn) - 1))), 2)

\* "1,234,567" has been read as 1234567
C9_Witness ==
  /\ cellPc = "out"
  /\ cellIn = <<"1", ",", "2", "3", "4", ",", "5", "6", "7">>
  /\ cellOut = [t |-> "n", m |-> 1234567, e |-> 0]

\* "85%" has been read as 0.85
C9_WitnessPercent ==
  /\ cellPc = "out"
  /\ cellIn = <<"8", "5", "%">>
  /\ cellOut = [t |-> "n", m |-> 85, e |-> 2]

(***************************************************************************)
(* Properties of processFile and convertToXlsx (checked under Spec)        *)
(***************************************************************************)
Called(f) == \E i \in 1..Len(calls) : calls[i] = f

\* position of the first call of f, 0 when it was not called
CallIndex(f) ==
  IF Called(f) THEN CHOOSE i \in 1..Len(calls) :
                      calls[i] = f /\ \A j \in 1..(i - 1) : calls[j] # f
  ELSE 0

\* the letters after the last '.' of the name, in lower case; <<"?">> when
\* the name has no '.'
ExtensionLetters(fname) ==
  LET dots == {i \in 1..Len(fname) : fname[i] = "."}
  IN IF dots = {} THEN <<"?">>
     ELSE LET last == CHOOSE i \in dots : \A j \in dots : j <= i
          IN [k \in 1..(Len(fname) - last) |-> ToLowerChar(fname[last + k])]

SupportedLetters ==
  { <<"x", "l", "s">>, <<"x", "l", "s", "x">>, <<"c", "s", "v">>,
    <<"t", "s", "v">>, <<"t", "x", "t">> }

Unsupported == ExtensionLetters(originalFilename) \notin SupportedLetters

Oversize == Len(buffer.bytes) + buffer.pad > 50 * 1024 * 1024

IsXlsxName == ExtensionLetters(originalFilename) = <<"x", "l", "s", "x">>

AfterParsing == pc \in {"normalize", "write", "return", "done"}

\* C1: processFile returns a ConversionResult and never throws: whatever
\* failed on the way (validation, the recovery finding no data, the
\* serializer), the run ends in a returned result; a failure has
\* success=false, a message, the original filename and the buffer length; an
\* unsupported extension or an oversize input fails before convertToXlsx is
\* called.
C1_AlwaysAResult ==
  /\ pc \in {"processFile", "convertToXlsx", "read", "recover", "normalize",
             "write", "return", "done"}
  /\ (\/ Unsupported
      \/ Oversize
      \/ Called("textBasedRecovery") /\ recovered = <<>>
      \/ Called("XLSX.write") /\ writeResult.throws) =>
       \/ pc = "processFile"
       \/ pc = "done" /\ ~result.success
  /\ pc = "done" =>
       /\ result.success \in BOOLEAN
       /\ ~result.success =>
            /\ result.message # <<>>
            /\ result.filename = originalFilename
            /\ result.originalSize = Len(buffer.bytes) + buffer.pad
       /\ (Unsupported \/ Oversize) => calls = <<>>

\* an oversize buffer with a supported name has been refused before
\* convertToXlsx
C1_Witness ==
  /\ pc = "done"
  /\ Oversize
  /\ ~Unsupported
  /\ ~result.success
  /\ result.message = <<"FILE_TOO_LARGE">>
  /\ calls = <<>>

BlankSheetCell(cell) ==
  \/ cell.t = "null"
  \/ cell.t = "s" /\ IsBlankString(cell.v.v)

\* the structured attempt failed: reader error, zero sheets, or no header cell
\* of the first sheet that is not blank
ReadFailed ==
  \/ readResult.throws
  \/ Len(readResult.sheets) = 0
  \/ Len(readResult.sheets[1].sheet) = 0
  \/ \A c \in 1..Len(readResult.sheets[1].sheet[1]) :
       BlankSheetCell(readResult.sheets[1].sheet[1][c])

\* C2: for a name whose extension is not xlsx, forceTextRecovery skips the
\* structured reader and runs the recovery; otherwise the reader runs first
\* and the recovery runs if and only if the attempt failed, and a failed
\* attempt is not what the caller gets: the result then is the recovery's.
C2_ParserChoice ==
  /\ forceTextRecovery => ~Called("XLSX.read")
  /\ (Called("convertToXlsx") /\ ~IsXlsxName /\ AfterParsing) =>
       /\ forceTextRecovery => CallIndex("textBasedRecovery") = 2
       /\ ~forceTextRecovery =>
            /\ CallIndex("XLSX.read") = 2
            /\ Called("textBasedRecovery") <=> ReadFailed
            /\ Called("textBasedRecovery") => CallIndex("textBasedRecovery") = 3
       /\ (pc = "done" /\ Called("textBasedRecovery")) =>
            \/ result.success
            \/ result.message \in {<<"CONVERSION_FAILED", "NO_DATA">>,
                                   <<"CONVERSION_FAILED", "WRITE_ERROR">>}

\* the reader gave a sheet whose header cells are all blank, the recovery ran
\* after it and the conversion succeeded
C2_Witness ==
  /\ pc = "done"
  /\ ~forceTextRecovery
  /\ calls = <<"convertToXlsx", "XLSX.read", "textBasedRecovery",
               "normalizeWorkbook", "XLSX.write">>
  /\ ~readResult.throws
  /\ Len(readResult.sheets) = 1
  /\ Len(readResult.sheets[1].sheet) = 2
  /\ result.success

\* C3: when the extension is xlsx in any letter case, convertToXlsx returns
\* the input buffer unchanged and calls neither the reader, the recovery, the
\* normalizer nor the serializer, whatever forceTextRecovery is.
C3_XlsxPassThrough ==
  (IsXlsxName /\ Called("convertToXlsx")) =>
    /\ calls = <<"convertToXlsx">>
    /\ workbook = <<>>
    /\ pc \in {"return", "done"}
    /\ result.buffer = [kind |-> "input",
                        length |-> Len(buffer.bytes) + buffer.pad]
    /\ pc = "done" => result.success

\* a.XlsX with forceTextRecovery set came back as the input buffer
C3_Witness ==
  /\ pc = "done"
  /\ originalFilename = <<"a", ".", "X", "l", "s", "X">>
  /\ forceTextRecovery
  /\ buffer.bytes # <<>>
  /\ result.success
  /\ result.buffer.kind = "input"
  /\ result.convertedSize = result.originalSize

\* C4: in the workbook output by a conversion that went through the recovery,
\* every header-row cell is Text equal to the string parsed from the first
\* line (or its placeholder), also after normalizeWorkbook has run.
C4_HeaderStaysText ==
  (Called("textBasedRecovery") /\ pc \in {"normalize", "write", "return"}) =>
    \A c \in 1..Len(recovered[1]) :
      /\ recovered[1][c].t = "s"
      /\ workbook[1].sheet[1][c].t = "s"
      /\ workbook[1].sheet[1][c].v = recovered[1][c]

\* the part of C4 that holds: the recovery itself keeps every header cell as
\* text
C4_HeaderTextBeforeNormalize ==
  (Called("textBasedRecovery") /\ pc = "normalize") =>
    \A c \in 1..Len(recovered[1]) :
      /\ recovered[1][c].t = "s"
      /\ workbook[1].sheet[1][c].v = recovered[1][c]

\* C5: every row of the grid the recovery produces has the length of the
\* header row, and holds a value in every position.
C5_Rectangular ==
  (Called("textBasedRecovery") /\ AfterParsing) =>
    /\ \A r \in 1..Len(recovered) :
         /\ Len(recovered[r]) = Len(recovered[1])
         /\ \A c \in 1..Len(recovered[r]) :
              recovered[r][c].t \in {"s", "n", "b", "d"}
    /\ \A i \in 1..Len(workbook) : \A r \in 1..Len(workbook[i].sheet) :
         Len(workbook[i].sheet[r]) = Len(workbook[i].sheet[1])

\* a second row shorter than the header has been padded with an Empty cell
C5_Witness ==
  /\ pc = "normalize"
  /\ Called("textBasedRecovery")
  /\ Len(recovered) = 2
  /\ Len(recovered[1]) = 2
  /\ recovered[2] = <<[t |-> "n", m |-> 1, e |-> 0], Str(<<>>)>>

\* no detector result makes the text of the buffer anything but white space
AlwaysBlankText ==
  \A detected \in DetectorResults : IsBlankString(BufferText(buffer, detected))

\* C6: the recovery never returns a workbook whose grid has zero rows: with
\* zero non-blank lines it fails with the empty-result error, and processFile
\* returns success=false with that error's message.
C6_NeverZeroRows ==
  /\ (Called("textBasedRecovery") /\ pc \in {"normalize", "write", "return"}) =>
       /\ Len(recovered) >= 1
       /\ Len(workbook) = 1
       /\ Len(workbook[1].sheet) >= 1
       /\ ~AlwaysBlankText
  /\ (Called("textBasedRecovery") /\ AlwaysBlankText) =>
       /\ pc = "done"
       /\ ~result.success
       /\ result.message = <<"CONVERSION_FAILED", "NO_DATA">>
       /\ calls[Len(calls)] = "textBasedRecovery"

\* a buffer of blank lines has been refused with the empty-result message
C6_Witness ==
  /\ pc = "done"
  /\ buffer.bytes = <<32, 10, 9, 10>>
  /\ Called("textBasedRecovery")
  /\ ~result.success
  /\ result.message = <<"CONVERSION_FAILED", "NO_DATA">>

\* C10 (second part, on the data rows): normalizeWorkbook leaves every
\* already-typed cell of a workbook of the recovery unchanged.
C10_TypedCellsUnchanged ==
  (Called("textBasedRecovery") /\ pc = "write") =>
    \A r \in 2..Len(recovered) : \A c \in 1..Len(recovered[r]) :
      workbook[1].sheet[r][c].v = recovered[r][c]

\* C10 (first part): normalizeCell applied to a Text result of normalizeCell
\* returns that same Text.  Checked under SpecCell.
C10_TextIdempotent ==
  (cellPc = "again" /\ cellOut.t = "s") => cellOut2 = cellOut

\* C10 (last part): normalizing the normalized workbook again gives the same
\* cells.  Checked under Spec.
C10_TwiceIsOnce ==
  pc = "write" =>
    \A i \in 1..Len(workbook) :
      NormalizeSheet(workbook[i]).sheet = workbook[i].sheet

\* C11: a successful conversion carries a size warning if and only if the
\* converted size is more than three times the original size, or less than a
\* tenth of it with an original size above 1000; with or without a warning
\* the result is a success holding the converted buffer and its size.
C11_SizeWarning ==
  (pc = "done" /\ Called("convertToXlsx")
     /\ (Called("XLSX.write") => ~writeResult.throws)
     /\ (Called("textBasedRecovery") => recovered # <<>>)
     /\ (Called("normalizeWorkbook") => Called("XLSX.write"))) =>
    LET original == Len(buffer.bytes) + buffer.pad
        converted == IF Called("XLSX.write") THEN writeResult.length
                     ELSE original
    IN /\ result.success
       /\ result.buffer.length = converted
       /\ result.convertedSize = converted
       /\ result.originalSize = original
       /\ (result.warnings # <<>>) <=>
            \/ converted > 3 * original
            \/ 10 * converted < original /\ original > 1000
       /\ Len(result.warnings) <= 1

\* a conversion from 1004 bytes to 99 succeeded with the warning, ...
C11_Witness ==
  /\ pc = "done"
  /\ Len(buffer.bytes) + buffer.pad = 1004
  /\ Called("XLSX.write")
  /\ result.success
  /\ result.convertedSize = 99
  /\ result.warnings # <<>>

\* ... and one from exactly 1000 bytes to 99 succeeded without it
C11_WitnessNoWarning ==
  /\ pc = "done"
  /\ Len(buffer.bytes) + buffer.pad = 1000
  /\ Called("XLSX.write")
  /\ result.success
  /\ result.convertedSize = 99
  /\ result.warnings = <<>>

(***************************************************************************)
(* Properties of the sheet names (C12 under Spec, C13 under SpecName)      *)
(***************************************************************************)
DistinctNames(wb) ==
  \A i, j \in 1..Len(wb) : i # j => wb[i].name # wb[j].name

\* normalizeWorkbook has been called and has returned its workbook
NormalizerReturned ==
  \/ pc \in {"write", "return"}
  \/ Called("XLSX.write")

\* C12: for a workbook whose sheet names are pairwise distinct,
\* normalizeWorkbook gives a workbook with as many sheets, whose names are
\* pairwise distinct too.
C12_DistinctSheetNames ==
  (Called("normalizeWorkbook") /\ ~Called("textBasedRecovery")
     /\ DistinctNames(readResult.sheets)) =>
    /\ NormalizerReturned
    /\ Len(workbook) = Len(readResult.sheets)
    /\ DistinctNames(workbook)

\* the part of C12 that holds: a workbook that normalizeWorkbook returns has
\* pairwise-distinct names
C12_ReturnedNamesDistinct ==
  NormalizerReturned => DistinctNames(workbook)

AsciiLetters ==
  { "a", "b", "c", "d", "e", "f", "g", "h", "i", "j", "k", "l", "m", "n", "o",
    "p", "q", "r", "s", "t", "u", "v", "w", "x", "y", "z",
    "A", "B", "C", "D", "E", "F", "G", "H", "I", "J", "K", "L", "M", "N", "O",
    "P", "Q", "R", "S", "T", "U", "V", "W", "X", "Y", "Z" }

AsciiDigits == {"0", "1", "2", "3", "4", "5", "6", "7", "8", "9"}

\* the Hangul syllables (U+AC00..U+D7A3) among the characters of the model
HangulSyllables ==
  {"U+AC00", "U+AC70", "U+B7FC", "U+C9D3", "U+CC38", "U+CEEC"}

WellFormedSheetName(name) ==
  /\ name # <<>>
  /\ Len(name) <= 31
  /\ \A i \in 1..Len(name) :
       name[i] \in AsciiLetters \cup AsciiDigits \cup HangulSyllables
                     \cup {".", "-", "_"}
  /\ \A i \in 1..(Len(name) - 1) : ~(name[i] = "_" /\ name[i + 1] = "_")

PlaceholderName ==
  <<"c", "o", "n", "v", "e", "r", "t", "e", "d", "_", "f", "i", "l", "e">>

\* C13: every sheet name normalizeWorkbook gives is non-empty, at most 31
\* characters long, made only of ASCII letters, digits, Hangul syllables,
\* '.', '-' and '_', without two consecutive '_'; a name that sanitizes to
\* the empty string (the empty name) becomes the placeholder name.
C13_SafeSheetNames ==
  (fn = "safeSheetName" /\ fnResult # NoCell) =>
    /\ WellFormedSheetName(fnResult.value)
    /\ fnArgs.sheetName = <<>> => fnResult.value = PlaceholderName

\* a name of 34 characters whose unsafe characters have been replaced and
\* collapsed has been cut to 31 characters
C13_Witness ==
  /\ fn = "safeSheetName"
  /\ fnResult # NoCell
  /\ fnArgs.sheetName = [i \in 1..16 |-> "n"] \o <<"?", "/">>
                          \o [i \in 1..16 |-> "n"]
  /\ Len(fnResult.value) = 31
  /\ fnResult.value[17] = "_"

\* the empty name has become the placeholder
C13_WitnessPlaceholder ==
  /\ fn = "safeSheetName"
  /\ fnArgs.sheetName = <<>>
  /\ fnResult # NoCell
  /\ fnResult.value = PlaceholderName

\* C13 on the workbooks of the conversion: every sheet of a workbook that
\* normalizeWorkbook returned has a well-formed name.
C13_NamesInWorkbook ==
  NormalizerReturned =>
    \A i \in 1..Len(workbook) : WellFormedSheetName(workbook[i].name)

(***************************************************************************)
(* Properties of the HTTP handler (checked under SpecHttp)                 *)
(***************************************************************************)
UploadLimit == 50 * 1024 * 1024

ParsableUpload == req.method = "POST" /\ ~req.malformed

\* C14: the handler sends exactly one response for a request: never a second
\* one, and one by the time it is done, which it always gets to; the file or
\* the success metadata is sent only after processFile returned success=true;
\* a failed conversion is answered with 500, a missing file or filename with
\* 400, an upload over the size limit with 413, a method other than POST and
\* OPTIONS with 405.
C14_OneResponse ==
  /\ Len(responses) <= 1
  /\ httpPc \notin {"done", "off"} => Len(responses) = 0 /\ ENABLED NextHttp
  /\ httpPc = "done" =>
       /\ Len(responses) = 1
       /\ responses[1].kind \in {"file", "metadata"} =>
            /\ conversion # NoCell
            /\ conversion.success
            /\ responses[1].status = 200
       /\ (conversion # NoCell /\ ~conversion.success) =>
            responses[1].status = 500
       /\ req.method \notin {"POST", "OPTIONS"} => responses[1].status = 405
       /\ (ParsableUpload /\ req.file.present
              /\ req.file.size > UploadLimit) => responses[1].status = 413
       /\ (ParsableUpload /\ ~req.file.present) => responses[1].status = 400
       /\ (ParsableUpload /\ req.file.present
              /\ req.file.size <= UploadLimit
              /\ req.file.originalFilename = <<>>) => responses[1].status = 400

\* a POST whose conversion failed has been answered once, with 500
C14_Witness ==
  /\ httpPc = "done"
  /\ req.method = "POST"
  /\ conversion # NoCell
  /\ ~conversion.success
  /\ Len(responses) = 1
  /\ responses[1].status = 500
  /\ responses[1].code = "CONVERSION_FAILED"

\* an upload of one byte more than the limit has been answered with 413
C14_WitnessOversize ==
  /\ httpPc = "done"
  /\ req.file.size = UploadLimit + 1
  /\ Len(responses) = 1
  /\ responses[1].status = 413

(***************************************************************************)
(* Properties of textBasedRecovery (checked under Spec)                    *)
(***************************************************************************)
\* the buffer is UTF-8 text, which detectAndDecode returns whatever the
\* detector says
Utf8Buffer == ~Includes(Utf8Decode(buffer.bytes), ReplacementChar)

RecoveryText == BufferText(buffer, [encoding |-> "", confidence |-> 0])

\* the non-blank lines of the text, and the cells of each of them
RecoveryLines == NonBlankLines(Split(RecoveryText, "\n"))

ParsedLine(k) == parseCSVLine(RecoveryLines[k], detectDelimiter(RecoveryText))

\* the label of the column at a 1-based position
PositionLabel(position) ==
  <<"U+CEEC", "U+B7FC">>
    \o (IF position < 10 THEN <<Digits[position + 1]>>
        ELSE <<Digits[(position \div 10) + 1], Digits[(position % 10) + 1]>>)

\* the recovery has just returned its grid for a UTF-8 text
Recovered ==
  /\ pc = "normalize"
  /\ Called("textBasedRecovery")
  /\ Utf8Buffer

\* C15: every blank cell of the parsed header line is replaced by the label
\* of its own 1-based column position, so two blank header cells get
\* different labels; every non-blank header cell is kept verbatim.
C15_HeaderPlaceholders ==
  Recovered =>
    \A c \in 1..Len(ParsedLine(1)) :
      IF IsBlankString(ParsedLine(1)[c])
        THEN /\ recovered[1][c] = Str(PositionLabel(c))
             /\ \A d \in 1..Len(ParsedLine(1)) :
                  (d # c /\ IsBlankString(ParsedLine(1)[d])) =>
                    recovered[1][d] # recovered[1][c]
        ELSE recovered[1][c] = Str(ParsedLine(1)[c])

\* the part of C15 that holds: a non-blank header cell is kept verbatim, and
\* the first blank one gets the label of its position
C15_NonBlankKept ==
  Recovered =>
    \A c \in 1..Len(ParsedLine(1)) :
      /\ ~IsBlankString(ParsedLine(1)[c]) =>
           recovered[1][c] = Str(ParsedLine(1)[c])
      /\ (/\ IsBlankString(ParsedLine(1)[c])
          /\ \A d \in 1..(c - 1) : ~IsBlankString(ParsedLine(1)[d])) =>
           recovered[1][c] = Str(PositionLabel(c))

\* the lines that are kept: the first one, and every later one with a
\* normalized cell that is not Empty
KeptLines ==
  { k \in 1..Len(RecoveryLines) :
      \/ k = 1
      \/ \E c \in 1..Len(ParsedLine(k)) :
           normalizeCell(ParsedLine(k)[c]) # Str(<<>>) }

\* the i-th kept line, in the order of the lines
KeptLine(i) ==
  CHOOSE k \in KeptLines : Cardinality({j \in KeptLines : j <= k}) = i

\* C16: the first non-blank line is always row 0, each later non-blank line
\* is a row if and only if one of its normalized cells is not Empty (the
\* number 0 and the boolean false are not Empty), and the rows are in the
\* order of their lines.
C16_RowRetention ==
  Recovered =>
    /\ Len(recovered) = Cardinality(KeptLines)
    /\ Len(recovered[1]) >= Len(ParsedLine(1))
    /\ \A i \in 2..Len(recovered) :
         /\ Len(recovered[i]) >= Len(ParsedLine(KeptLine(i)))
         /\ \A c \in 1..Len(ParsedLine(KeptLine(i))) :
              recovered[i][c] = normalizeCell(ParsedLine(KeptLine(i))[c])

\* of the lines a,b / , / 0, / " " / false, the second and the fourth have
\* been dropped and the lines of 0 and of false are rows, in that order
C16_Witness ==
  /\ pc = "normalize"
  /\ Called("textBasedRecovery")
  /\ Len(RecoveryLines) = 5
  /\ Len(recovered) = 3
  /\ recovered[2][1] = [t |-> "n", m |-> 0, e |-> 0]
  /\ recovered[3][1] = Bool(FALSE)

(***************************************************************************)
(* Properties of parseCSVLine (checked under SpecLine)                     *)
(***************************************************************************)
CandidateDelimiters == {"\t", ",", ";", "|"}

QuoteCharacters == {"\"", "'"}

\* one step of the two-state scanner on the character at position i; the
\* state st is "" in Unquoted and the active quote character in Quoted; skip
\* tells that the character has been consumed as the second of a doubled
\* quote; delims counts the delimiters read in Unquoted.  A quote character
\* given as the delimiter opens a quoted span.
ScannerStep(line, delimiter, z, i) ==
  LET ch == line[i]
  IN IF z.skip THEN [z EXCEPT !.skip = FALSE]
     ELSE IF z.st = ""
       THEN IF ch \in QuoteCharacters THEN [z EXCEPT !.st = ch]
            ELSE IF ch = delimiter
              THEN [z EXCEPT !.cells = Append(z.cells, TrimmedOf(z.cur)),
                             !.cur = <<>>,
                             !.delims = z.delims + 1]
            ELSE [z EXCEPT !.cur = Append(z.cur, ch)]
     ELSE IF ch # z.st THEN [z EXCEPT !.cur = Append(z.cur, ch)]
     ELSE IF i < Len(line) /\ line[i + 1] = z.st
       THEN [z EXCEPT !.cur = Append(z.cur, ch), !.skip = TRUE]
     ELSE [z EXCEPT !.st = ""]

RECURSIVE ScannerAfter(_, _, _)
ScannerAfter(line, delimiter, n) ==
  IF n = 0
    THEN [st |-> "", cur |-> <<>>, cells |-> <<>>, skip |-> FALSE, delims |-> 0]
    ELSE ScannerStep(line, delimiter, ScannerAfter(line, delimiter, n - 1), n)

\* the cells the scanner gives for a line: those it pushed and the last one,
\* flushed at the end of the line
ScannerCells(line, delimiter) ==
  LET z == ScannerAfter(line, delimiter, Len(line))
  IN [cells |-> Append(z.cells, TrimmedOf(z.cur)), delims |-> z.delims,
      st |-> z.st]

ParsedWith(delimiters) ==
  /\ fn = "parseCSVLine"
  /\ fnResult # NoCell
  /\ fnArgs.delimiter \in delimiters

\* C17: parseCSVLine gives, for a line and a candidate delimiter, the cells of
\* the two-state scanner run over that line, hence one cell more than the
\* delimiters that the scanner reads in the Unquoted state.
C17_TwoStateScanner ==
  ParsedWith(CandidateDelimiters) =>
    /\ fnResult.value = ScannerCells(fnArgs.line, fnArgs.delimiter).cells
    /\ Len(fnResult.value)
         = 1 + ScannerCells(fnArgs.line, fnArgs.delimiter).delims

\* the part of C17 that holds: parseCSVLine gives the cells of the scanner
\* run over the line without its leading and trailing white space, which is
\* the line itself unless the delimiter is the tab
C17_ScannerOnTrimmedLine ==
  ParsedWith(CandidateDelimiters) =>
    /\ fnResult.value
         = ScannerCells(TrimmedOf(fnArgs.line), fnArgs.delimiter).cells
    /\ Len(fnResult.value)
         = 1 + ScannerCells(TrimmedOf(fnArgs.line), fnArgs.delimiter).delims
    /\ fnArgs.delimiter # "\t" =>
         fnResult.value = ScannerCells(fnArgs.line, fnArgs.delimiter).cells

\* C18: parseCSVLine returns for every line and every delimiter: at least one
\* cell, every cell a string without leading or trailing white space (the
\* empty string for an empty cell), and what has accumulated as the last
\* cell when the line ends inside a quoted span.
C18_NeverFails ==
  ParsedWith(LineDelimiters) =>
    /\ Len(fnResult.value) >= 1
    /\ \A c \in 1..Len(fnResult.value) :
         /\ fnResult.value[c] \in Seq(WhiteSpace \cup {"a", "b", "c", ",", "\"", "'"})
         /\ TrimmedOf(fnResult.value[c]) = fnResult.value[c]
    /\ LET z == ScannerAfter(TrimmedOf(fnArgs.line), fnArgs.delimiter,
                             Len(TrimmedOf(fnArgs.line)))
       IN z.st # "" =>
            fnResult.value[Len(fnResult.value)] = TrimmedOf(z.cur)

\* the line a,"b,c ends inside the quoted span: its cells are a and b,c
C18_Witness ==
  /\ fn = "parseCSVLine"
  /\ fnArgs.line = <<"a", ",", "\"", "b", ",", "c">>
  /\ fnArgs.delimiter = ","
  /\ fnResult # NoCell
  /\ fnResult.value = << <<"a">>, <<"b", ",", "c">> >>

(***************************************************************************)
(* Properties of detectDelimiter (checked under SpecDelimiter)             *)
(***************************************************************************)
DelimiterDetected == fn = "detectDelimiter" /\ fnResult # NoCell

\* the numbers of cells, when more than one, that the quote-aware parser
\* gives for each of the lines
RECURSIVE QuoteAwareCounts(_, _)
QuoteAwareCounts(lines, delimiter) ==
  IF lines = <<>> THEN <<>>
  ELSE LET n == Len(parseCSVLine(Head(lines), delimiter))
       IN (IF n > 1 THEN <<n>> ELSE <<>>)
            \o QuoteAwareCounts(Tail(lines), delimiter)

\* C19: the column counts detectDelimiter records for a candidate are the
\* numbers of cells parseCSVLine returns for the sampled lines with that
\* candidate, so a candidate inside a quoted span adds no column.
C19_QuoteAwareCounts ==
  DelimiterDetected =>
    \A k \in 1..Len(Delimiters) :
      fnResult.columnCounts[k] = QuoteAwareCounts(fnResult.lines, Delimiters[k])

\* the non-blank lines of a text
RECURSIVE WithoutBlankLines(_)
WithoutBlankLines(lines) ==
  IF lines = <<>> THEN <<>>
  ELSE (IF IsBlankString(Head(lines)) THEN <<>> ELSE <<Head(lines)>>)
         \o WithoutBlankLines(Tail(lines))

\* the text made of the given lines, one after the other
RECURSIVE JoinLines(_)
JoinLines(lines) ==
  IF lines = <<>> THEN <<>>
  ELSE IF Len(lines) = 1 THEN Head(lines)
  ELSE Head(lines) \o <<"\n">> \o JoinLines(Tail(lines))

\* the first 10 non-blank lines of a text
FirstNonBlankLines(text) ==
  LET lines == WithoutBlankLines(Split(text, "\n"))
  IN [i \in 1..(IF Len(lines) < 10 THEN Len(lines) ELSE 10) |-> lines[i]]

\* C20: the delimiter is a function of the first 10 non-blank lines of the
\* text: the text of those lines alone, which has the same first 10 non-blank
\* lines, gives the same delimiter, wherever the blank lines of the text are.
C20_FunctionOfSampledLines ==
  DelimiterDetected =>
    fnResult.value = detectDelimiter(JoinLines(FirstNonBlankLines(fnArgs.text)))

\* the part of C20 that holds: the delimiter is a function of the non-blank
\* lines among the first 10 lines of the text
C20_FunctionOfFirstLines ==
  DelimiterDetected =>
    LET lines == Split(fnArgs.text, "\n")
        first == [i \in 1..(IF Len(lines) < 10 THEN Len(lines) ELSE 10)
                    |-> lines[i]]
    IN fnResult.value = detectDelimiter(JoinLines(WithoutBlankLines(first)))

\* The score of a candidate as a fraction <<numerator, denominator>>, from
\* the counts recorded for it: 0 without a count, and otherwise
\* avg * max(consistency, 0.5) * len(counts), where avg = S / n,
\* consistency = 0.8 when max(counts) > 10 and 1 - (max - min) / max(avg, 1)
\* otherwise.  With M = max(S, n), max(avg, 1) = M / n and
\*   consistency = (M - (max - min) * n) / M
\*   score       = S * max(2 * (M - (max - min) * n), M) / (2 * M)
StatedScore(counts) ==
  IF counts = <<>> THEN <<0, 1>>
  ELSE LET S == SumSeq(counts)
           n == Len(counts)
           M == IF S > n THEN S ELSE n
           hi == CHOOSE x \in {counts[i] : i \in 1..n} :
                   \A i \in 1..n : counts[i] <= x
           lo == CHOOSE x \in {counts[i] : i \in 1..n} :
                   \A i \in 1..n : counts[i] >= x
           c2 == 2 * (M - (hi - lo) * n)
       IN IF hi > 10 THEN <<8 * S, 10>>
          ELSE <<S * (IF c2 > M THEN c2 ELSE M), 2 * M>>

\* a / b < c / d, for positive denominators
ScoreLess(x, y) == x[1] * y[2] < y[1] * x[2]

\* the score stated for the k-th candidate of the call
CandidateScore(k) == StatedScore(fnResult.columnCounts[k])

\* the k-th candidate has the highest score, and is the earliest to have it
EarliestHighest(k) ==
  /\ CandidateScore(k)[1] > 0
  /\ \A j \in 1..Len(Delimiters) : ~ScoreLess(CandidateScore(k), CandidateScore(j))
  /\ \A j \in 1..(k - 1) : ScoreLess(CandidateScore(j), CandidateScore(k))

C21_WideLine ==
  /\ DelimiterDetected
  /\ fnArgs.text = [i \in 1..10 |-> "|"] \o <<"\n">> \o [i \in 1..10 |-> "|"] \o <<",">>
  /\ fnResult.columnCounts[4] = <<11, 11>>
  /\ fnResult.value = "|"

\* no candidate in the text: every score is 0 and the comma is returned
C21_NoCandidate ==
  /\ DelimiterDetected
  /\ fnArgs.text = <<"a", "\n", "a">>
  /\ fnResult.value = ","

(***************************************************************************)
(* Properties of detectAndDecode (checked under SpecDecode)                *)
(***************************************************************************)
Decoded == fn = "detectAndDecode" /\ fnResult # NoCell

\* a text without the replacement marker
NoMarker(text) == \A i \in 1..Len(text) : text[i] # "U+FFFD"

\* the detector gave a guess, with a confidence above 0.7
ConfidentGuess ==
  /\ fnArgs.detected.encoding \notin {"", "throws"}
  /\ fnArgs.detected.confidence > 70

\* stage 3: the first of EUC-KR, CP949, UTF-8, Latin-1 without a marker,
\* given as the set of the texts the stage can give (empty when it fails)
SequentialTexts ==
  LET list == <<"euc-kr", "cp949", "utf8", "latin1">>
  IN { IconvDecode(fnArgs.buffer, list[k]) : k \in
         { k \in 1..4 :
             /\ NoMarker(IconvDecode(fnArgs.buffer, list[k]))
             /\ \A j \in 1..(k - 1) :
                  ~NoMarker(IconvDecode(fnArgs.buffer, list[j])) } }

\* C22: detectAndDecode returns a text for every buffer, that of the first
\* stage to succeed: (1) the UTF-8 text when it has no replacement marker,
\* the detector not being consulted; (2) the detector's guess when its
\* confidence is above 0.7, a euc-kr or cp949 guess decoded as EUC-KR and
\* another guess used when its codec is supported; (3) the first of EUC-KR,
\* CP949, UTF-8, Latin-1 whose text has no marker; (4) Latin-1.
C22_DecodeStages ==
  Decoded =>
    /\ fnResult.value \in Seq({fnResult.value[i] : i \in 1..Len(fnResult.value)})
    /\ IF NoMarker(Utf8Decode(fnArgs.buffer))
         THEN /\ fnResult.value = Utf8Decode(fnArgs.buffer)
              /\ ~fnResult.detectorCalled
       ELSE IF /\ ConfidentGuess
               /\ fnArgs.detected.encoding \in {"euc-kr", "cp949", "x-cp949-like"}
         THEN fnResult.value = Cp949From(fnArgs.buffer, 1)
       ELSE IF ConfidentGuess /\ fnArgs.detected.encoding \in KnownEncodings
         THEN fnResult.value = IconvDecode(fnArgs.buffer, fnArgs.detected.encoding)
       ELSE IF SequentialTexts # {}
         THEN fnResult.value \in SequentialTexts
       ELSE fnResult.value = Latin1Decode(fnArgs.buffer)

\* the EUC-KR bytes of U+AC00 followed by 0xFF, guessed as a cp949 variant
\* with confidence 0.95: the guess is decoded as EUC-KR, marker included,
\* where the sequential stage would have given the Latin-1 text
C22_Witness ==
  /\ Decoded
  /\ fnArgs.buffer = <<176, 161, 255>>
  /\ fnArgs.detected = [encoding |-> "x-cp949-like", confidence |-> 95]
  /\ fnResult.detectorCalled
  /\ fnResult.value = <<"U+AC00", "U+FFFD">>
  /\ SequentialTexts = {Latin1Decode(fnArgs.buffer)}

\* the same bytes with a guess of confidence exactly 0.7: the guess is not
\* used and Latin-1 is the first of the list without a marker
C22_AtThreshold ==
  /\ Decoded
  /\ fnArgs.buffer = <<176, 161, 255>>
  /\ fnArgs.detected = [encoding |-> "euc-kr", confidence |-> 70]
  /\ fnResult.value = Latin1Decode(fnArgs.buffer)

\* the UTF-8 bytes of U+FFFD: well-formed UTF-8 whose text has the marker,
\* so the first stage does not return it
C22_EncodedMarker ==
  /\ Decoded
  /\ fnArgs.buffer = <<239, 191, 189>>
  /\ fnArgs.detected.encoding = ""
  /\ fnResult.detectorCalled
  /\ fnResult.value # Utf8Decode(fnArgs.buffer)

(***************************************************************************)
(* Properties of the fallback chain (checked under SpecFallback)           *)
(***************************************************************************)
FallbackRan == fn = "fallback" /\ fnResult # NoCell

\* the cells of the first method that succeeds, as raw texts: the pieces
\* between the inferred delimiters, the commas or the tabs, the words between
\* runs of white space, or the whole line
RawFallbackCells ==
  IF fnArgs.failed = 0 THEN Split(fnArgs.line, fnArgs.delimiter)
  ELSE IF fnArgs.failed = 1 THEN Split(fnArgs.line, ",")
  ELSE IF fnArgs.failed = 2 THEN Split(fnArgs.line, "\t")
  ELSE IF fnArgs.failed = 3 THEN WordsFrom(fnArgs.line, 1, <<>>)
  ELSE <<fnArgs.line>>

C23_NormalizedTwice ==
  FallbackRan =>
    /\ Len(fnResult.row) = Len(RawFallbackCells)
    /\ \A i \in 1..Len(RawFallbackCells) :
         LET text == StringOf(normalizeCell(Trim(RawFallbackCells[i])))
         IN IF fnArgs.lineIndex = 0
              THEN Trim(text) # <<>> => fnResult.row[i] = Str(Trim(text))
              ELSE fnResult.row[i] = normalizeCell(text)

\* the header line "yes" is recorded as the text "true"
C23_HeaderCoerced ==
  /\ FallbackRan
  /\ fnArgs.line = <<"y", "e", "s">>
  /\ fnArgs.lineIndex = 0
  /\ fnResult.row = <<Str(<<"t", "r", "u", "e">>)>>

\* the date of a data line is recorded as the text String gives for it
C23_DateAsText ==
  /\ FallbackRan
  /\ fnArgs.line = <<"2", "0", "2", "4", "-", "0", "2", "-", "2", "9">>
  /\ fnArgs.lineIndex = 1
  /\ fnArgs.failed = 0
  /\ fnResult.row[1].t = "s"
  /\ SubSeq(fnResult.row[1].v, 1, 15)
       = <<"T", "h", "u", " ", "F", "e", "b", " ", "2", "9", " ", "2", "0",
           "2", "4">>

(***************************************************************************)
(* The width of the recovered grid (checked under Spec)                    *)
(***************************************************************************)
\* the largest number of cells of a non-blank line of the text
WidestLine ==
  CHOOSE w \in {Len(ParsedLine(k)) : k \in 1..Len(RecoveryLines)} :
    \A k \in 1..Len(RecoveryLines) : Len(ParsedLine(k)) <= w

\* C24: every row of the recovered grid, the header included, has as many
\* cells as the widest parsed non-blank line, whether that line is kept or
\* dropped for having only Empty cells: a dropped line can make the grid wider
\* than every kept line.
C24_GridWidth ==
  Recovered =>
    \A i \in 1..Len(recovered) : Len(recovered[i]) = WidestLine

\* of the lines 1 and ,, the second has three Empty cells and is dropped, and
\* the only row, the header, has three cells
C24_Witness ==
  /\ Recovered
  /\ buffer.bytes = <<49, 10, 44, 44>>
  /\ KeptLines = {1}
  /\ Len(ParsedLine(1)) = 1
  /\ Len(ParsedLine(2)) = 3
  /\ recovered = << <<Str(<<"1">>), Str(<<>>), Str(<<>>)>> >>

====
